---- MODULE Spec2Model ----
(***************************************************************************)
(* A model of the liveboard relay server (server.js): the registry of      *)
(* connected socket.io sessions, the shared dashboardState record, the     *)
(* API-activity flag, and the handlers (WebSocket and REST) that change     *)
(* them and broadcast events.  Every handler runs to completion on the     *)
(* single Node.js event loop, so one handler is one action.                 *)
(*                                                                         *)
(* JavaScript values are records [t, n, s]: t is the typeof tag, n the     *)
(* number (or 0/1 for a boolean), s the characters of a string.  Strings   *)
(* are sequences of one-character strings, so that startsWith, length and  *)
(* the regular expressions are computed character by character.            *)
(***************************************************************************)
EXTENDS Integers, Sequences, FiniteSets, TLC

\* ---------------------------------------------------------------- bounds

\* Number of socket.io connections ever opened in a run.
MaxSessions == 2

\* ------------------------------------------------------ JavaScript values

Num(k) == [t |-> "number", n |-> k, s |-> <<>>]

Str(cs) == [t |-> "string", n |-> 0, s |-> cs]

Bool(b) == [t |-> "boolean", n |-> IF b THEN 1 ELSE 0, s |-> <<>>]

\* A field that is missing from the parsed JSON object.
Undefined == [t |-> "undefined", n |-> 0, s |-> <<>>]

\* JavaScript truthiness, as used by `x || d`, `!x` and `x && y`.
Truthy(v) ==
    CASE v.t = "number" -> v.n # 0
      [] v.t = "string" -> v.s # <<>>
      [] v.t = "boolean" -> v.n = 1
      [] OTHER -> FALSE

\* String.prototype.startsWith on character sequences.
StartsWith(cs, prefix) ==
    /\ Len(cs) >= Len(prefix)
    /\ \A i \in 1..Len(prefix) : cs[i] = prefix[i]

S_UnknownDevice == <<"U", "n", "k", "n", "o", "w", "n", " ", "D", "e", "v", "i", "c", "e">>

S_Dashboard == <<"D", "a", "s", "h", "b", "o", "a", "r", "d">>

S_NoVideoLoaded == <<"N", "o", " ", "v", "i", "d", "e", "o", " ", "l", "o", "a", "d", "e", "d">>

S_playing == <<"p", "l", "a", "y", "i", "n", "g">>

S_paused == <<"p", "a", "u", "s", "e", "d">>

S_stopped == <<"s", "t", "o", "p", "p", "e", "d">>

\* ------------------------------------------------------------------ state

VARIABLES
    connectedClients,       \* the session list: sequence of [id, name, type]
    connectedClientsCount,  \* the session counter
    sockets,                \* ids socket.io holds connected: io.emit's recipients
    nextId,                 \* the next fresh socket id
    dashboardState,         \* [volume, playbackStatus, currentVideoTitle]
    apiClientActive,        \* the activity flag
    lastApiActivity,        \* time of the last activity, -1 for null
    now,                    \* the clock Date.now() reads
    emitted,                \* the events the last handler sent, in order
    last,                   \* the event the last handler handled
    resp,                   \* the HTTP response of the last handler, NoReply if none
    apiKeysFile,            \* api-keys.json: [parsable, keys], keys a sequence of
                            \* [id, name, key, createdAt]
    nextKey,                \* the number of the next crypto.randomBytes result
    apiKeyHeader            \* the X-API-Key header of the last REST request

vars == <<connectedClients, connectedClientsCount, sockets, nextId,
          dashboardState, apiClientActive, lastApiActivity, now,
          emitted, last, resp, apiKeysFile, nextKey, apiKeyHeader>>

registryVars == <<connectedClients, connectedClientsCount, sockets, nextId>>

activityVars == <<apiClientActive, lastApiActivity>>

keyVars == <<apiKeysFile, nextKey, apiKeyHeader>>

\* ---------------------------------------------------------------- helpers

\* One emitted event: its name, its scalar payload, its client-list payload
\* and the sockets it is sent to.
Emit(to, ev, val, list) == [ev |-> ev, val |-> val, list |-> list, to |-> to]

\* connectedClients.filter(c => c.type === 'external')
ExternalOf(clients) ==
    LET IsExternal(c) == c.type = "external"
    IN  SelectSeq(clients, IsExternal)

getExternalClients == ExternalOf(connectedClients)

\* connectedClients.findIndex(c => c.id === id); 0 stands for -1.
FindIndex(clients, id) ==
    IF \E i \in 1..Len(clients) : clients[i].id = id
    THEN CHOOSE i \in 1..Len(clients) :
            /\ clients[i].id = id
            /\ \A j \in 1..(i - 1) : clients[j].id # id
    ELSE 0

\* splice(index, 0): nothing is removed.
SpliceNothing(clients, index) == clients

\* splice(0, 1): the first record is removed, whichever was found.
SpliceFirst(clients, index) == Tail(clients)

\* Array.prototype.splice(index, 1)
Splice(clients, index) ==
    [i \in 1..(Len(clients) - 1) |->
        IF i < index THEN clients[i] ELSE clients[i + 1]]

\* What the last handler handled: a socket event (kind, socket id, payload) or
\* a REST request (kind "rest", endpoint cmd, the body field the handler read,
\* and gate: how far the request got through the middleware).
Event(kind, id, cmd, arg, gate) ==
    [kind |-> kind, id |-> id, cmd |-> cmd, arg |-> arg, gate |-> gate]

NoState == [volume |-> Undefined, playbackStatus |-> Undefined,
            currentVideoTitle |-> Undefined]

\* An HTTP response: the status and the body fields that carry registry or
\* state data (clientCount, totalClients: -1 when absent), keys: the key
\* records of the body (none but in the key endpoints' responses), and
\* error: the error text of requireApiKey's responses ("" in the others).
Reply(status, clientCount, totalClients, clients, state) ==
    [status |-> status, clientCount |-> clientCount, totalClients |-> totalClients,
     clients |-> clients, state |-> state, keys |-> <<>>, error |-> ""]

NoReply == Reply(0, -1, -1, <<>>, NoState)

\* A response that carries only a status and an error text.
ErrorReply(status) == Reply(status, -1, -1, <<>>, NoState)

\* ------------------------------------------------------------------- Init

\* Date.now() when the server starts: some positive number of milliseconds.
StartTime == 1

Init ==
    /\ connectedClients = <<>>
    /\ connectedClientsCount = 0
    /\ sockets = {}
    /\ nextId = 1
    /\ dashboardState = [volume |-> Num(100),
                         playbackStatus |-> Str(S_stopped),
                         currentVideoTitle |-> Str(S_NoVideoLoaded)]
    /\ apiClientActive = FALSE
    /\ lastApiActivity = -1
    /\ now = StartTime
    /\ emitted = <<>>
    /\ last = Event("init", 0, "", Undefined, "")
    /\ resp = NoReply
    /\ apiKeysFile = [parsable |-> TRUE, keys |-> <<>>]
    /\ nextKey = 1
    /\ apiKeyHeader = Undefined

\* ------------------------------------------------ the session registry

\* The handler that tells the new socket nothing about the activity flag.
ConnectNoStatus ==
    /\ nextId <= MaxSessions
    /\ LET id == nextId
           clientInfo == [id |-> id, name |-> Str(S_UnknownDevice), type |-> "external"]
           clients == Append(connectedClients, clientInfo)
           to == sockets \cup {id}
       IN  /\ sockets' = to
           /\ nextId' = nextId + 1
           /\ connectedClientsCount' = connectedClientsCount + 1
           /\ connectedClients' = clients
           /\ emitted' = << Emit(to, "connected-clients", Undefined, ExternalOf(clients)) >>
           /\ last' = Event("connect", id, "", Undefined, "")
    /\ resp' = NoReply
    /\ UNCHANGED <<dashboardState, activityVars, now, keyVars>>

\* io.on('connection'): socket.io has added the socket before the handler
\* runs; the handler counts it, appends its record, tells the new socket the
\* activity flag and broadcasts the external client list.
Connect ==
    /\ nextId <= MaxSessions
    /\ LET id == nextId
           clientInfo == [id |-> id, name |-> Str(S_UnknownDevice), type |-> "external"]
           clients == Append(connectedClients, clientInfo)
           to == sockets \cup {id}
       IN  /\ sockets' = to
           /\ nextId' = nextId + 1
           /\ connectedClientsCount' = connectedClientsCount + 1
           /\ connectedClients' = clients
           /\ emitted' = << Emit({id}, "api-client-status", Bool(apiClientActive), <<>>),
                            Emit(to, "connected-clients", Undefined, ExternalOf(clients)) >>
           /\ last' = Event("connect", id, "", Undefined, "")
    /\ resp' = NoReply
    /\ UNCHANGED <<dashboardState, activityVars, now, keyVars>>

\* The counter lowered only when no record is found.
DisconnectHandlerMiscount(id, to) ==
    LET clientIndex == FindIndex(connectedClients, id)
    IN  IF clientIndex # 0
        THEN LET clients == Splice(connectedClients, clientIndex)
             IN  /\ connectedClientsCount' = connectedClientsCount
                 /\ connectedClients' = clients
                 /\ emitted' = << Emit(to, "connected-clients", Undefined,
                                       ExternalOf(clients)) >>
        ELSE /\ connectedClientsCount' = connectedClientsCount - 1
             /\ connectedClients' = connectedClients
             /\ emitted' = <<>>

\* The body of socket.on('disconnect') for socket id.
DisconnectHandler(id, to) ==
    LET clientIndex == FindIndex(connectedClients, id)
    IN  /\ connectedClientsCount' = connectedClientsCount - 1
        /\ IF clientIndex # 0
           THEN LET clients == Splice(connectedClients, clientIndex)
                IN  /\ connectedClients' = clients
                    /\ emitted' = << Emit(to, "connected-clients", Undefined,
                                          ExternalOf(clients)) >>
           ELSE /\ connectedClients' = connectedClients
                /\ emitted' = <<>>

\* socket.io closes a connected socket and fires its 'disconnect' event once.
Disconnect(id) ==
    /\ id \in sockets
    /\ sockets' = sockets \ {id}
    /\ DisconnectHandler(id, sockets \ {id})
    /\ last' = Event("disconnect", id, "", Undefined, "")
    /\ resp' = NoReply
    /\ UNCHANGED <<nextId, dashboardState, activityVars, now, keyVars>>

\* deviceName.startsWith('Dashboard') ? 'dashboard' : 'external'
ClientType(deviceName) ==
    IF StartsWith(deviceName.s, S_Dashboard) THEN "dashboard" ELSE "external"

\* The name written to the first record instead of the one found.
SetNameFirst(clients, idx, deviceName) == [clients EXCEPT ![1].name = deviceName]

\* client.name = deviceName
SetName(clients, idx, deviceName) == [clients EXCEPT ![idx].name = deviceName]

\* client.type = ...
SetType(clients, idx, type) == [clients EXCEPT ![idx].type = type]

\* message.type === 'identify' on the socket with this id.  A truthy name that
\* is not a string makes startsWith throw after the name was stored; the
\* handler's catch swallows it (gate "caught").
IdentifyHandler(id, name) ==
    LET deviceName == IF Truthy(name) THEN name ELSE Str(S_UnknownDevice)
        idx == FindIndex(connectedClients, id)
    IN  IF idx = 0
        THEN /\ connectedClients' = connectedClients
             /\ emitted' = <<>>
             /\ last' = Event("identify", id, "", name, "ok")
        ELSE IF deviceName.t # "string"
        THEN /\ connectedClients' = SetName(connectedClients, idx, deviceName)
             /\ emitted' = <<>>
             /\ last' = Event("identify", id, "", name, "caught")
        ELSE LET type == ClientType(deviceName)
                 clients == SetType(SetName(connectedClients, idx, deviceName),
                                    idx, type)
             IN  /\ connectedClients' = clients
                 /\ emitted' =
                       << Emit(sockets, "connected-clients", Undefined,
                               ExternalOf(clients)) >>
                       \o (IF type = "external"
                           THEN << Emit(sockets \ {id}, "client-connected",
                                        deviceName, <<>>) >>
                           ELSE <<>>)
                 /\ last' = Event("identify", id, "", name, "ok")

WsIdentify(id, name) ==
    /\ id \in sockets
    /\ IdentifyHandler(id, name)
    /\ resp' = NoReply
    /\ UNCHANGED <<connectedClientsCount, sockets, nextId, dashboardState,
                   activityVars, now, keyVars>>

\* ------------------------------------------- late and duplicate events

\* Late notifications a run may deliver.
MaxLate == 1

\* The sockets that were connected and are closed.
Closed == (1..(nextId - 1)) \ sockets

\* A disconnect notification for a socket whose disconnect was already
\* handled: the handler runs again.  Each such run lowers the counter by
\* one, which is how the guard counts them.
LateDisconnect(id) ==
    /\ id \in Closed
    /\ Len(connectedClients) - connectedClientsCount < MaxLate
    /\ DisconnectHandler(id, sockets)
    /\ last' = Event("disconnect", id, "", Undefined, "")
    /\ resp' = NoReply
    /\ UNCHANGED <<sockets, nextId, dashboardState, activityVars, now, keyVars>>

\* An identify message handled after its socket's disconnect.
LateIdentify(id, name) ==
    /\ id \in Closed
    /\ IdentifyHandler(id, name)
    /\ resp' = NoReply
    /\ UNCHANGED <<connectedClientsCount, sockets, nextId, dashboardState,
                   activityVars, now, keyVars>>

\* ------------------------------------------------- controller activity

\* updateApiActivity(): the state change ...
updateApiActivity ==
    /\ lastApiActivity' = now
    /\ apiClientActive' = TRUE

\* ... and the broadcast it makes on the inactive-to-active transition.
\* The broadcast made on every call.
ActivityEventsEveryCall == << Emit(sockets, "api-client-status", Bool(TRUE), <<>>) >>

ActivityEvents ==
    IF apiClientActive
    THEN <<>>
    ELSE << Emit(sockets, "api-client-status", Bool(TRUE), <<>>) >>

\* const API_TIMEOUT = 60000
API_TIMEOUT == 60000

\* setInterval(..., 10000)
SweepInterval == 10000

\* Sweep intervals a run lasts.
MaxTicks == 8

\* Time passes: one sweep interval.  Handlers take no time.
Tick ==
    /\ now < StartTime + MaxTicks * SweepInterval
    /\ now' = now + SweepInterval
    /\ emitted' = <<>>
    /\ last' = Event("tick", 0, "", Undefined, "")
    /\ resp' = NoReply
    /\ UNCHANGED <<registryVars, dashboardState, activityVars, keyVars>>

\* The flag cleared and the broadcast made whenever the timeout has passed,
\* whatever the flag.
SweepEveryTick ==
    /\ IF lastApiActivity > 0 /\ now - lastApiActivity > API_TIMEOUT
       THEN /\ apiClientActive' = FALSE
            /\ emitted' = << Emit(sockets, "api-client-status", Bool(FALSE), <<>>) >>
       ELSE /\ apiClientActive' = apiClientActive
            /\ emitted' = <<>>
    /\ last' = Event("sweep", 0, "", Undefined, "")
    /\ resp' = NoReply
    /\ UNCHANGED <<registryVars, dashboardState, lastApiActivity, now, keyVars>>

\* The callback of setInterval: if (apiClientActive && lastApiActivity), and
\* more than API_TIMEOUT has passed since, clear the flag and broadcast.
\* lastApiActivity is falsy when null (-1) or 0.
Sweep ==
    /\ IF /\ apiClientActive
          /\ lastApiActivity > 0
          /\ now - lastApiActivity > API_TIMEOUT
       THEN /\ apiClientActive' = FALSE
            /\ emitted' = << Emit(sockets, "api-client-status", Bool(FALSE), <<>>) >>
       ELSE /\ apiClientActive' = apiClientActive
            /\ emitted' = <<>>
    /\ last' = Event("sweep", 0, "", Undefined, "")
    /\ resp' = NoReply
    /\ UNCHANGED <<registryVars, dashboardState, lastApiActivity, now, keyVars>>

\* The test made with >= in place of >.
SweepExpiredAtTimeout(t) ==
    apiClientActive /\ lastApiActivity > 0 /\ t - lastApiActivity >= API_TIMEOUT

\* The test of the callback when Date.now() returns t.
SweepExpired(t) ==
    apiClientActive /\ lastApiActivity > 0 /\ t - lastApiActivity > API_TIMEOUT

\* The timer as setInterval schedules it: half an interval passes, and at
\* every full interval since the start the callback runs, before any other
\* handler of that instant.
Elapse ==
    LET t == now + SweepInterval \div 2
        due == (t - StartTime) % SweepInterval = 0
    IN  /\ now < StartTime + MaxTicks * SweepInterval
        /\ now' = t
        /\ IF due /\ SweepExpired(t)
           THEN /\ apiClientActive' = FALSE
                /\ emitted' = << Emit(sockets, "api-client-status", Bool(FALSE), <<>>) >>
           ELSE /\ apiClientActive' = apiClientActive
                /\ emitted' = <<>>
        /\ last' = Event(IF due THEN "sweep" ELSE "tick", 0, "", Undefined, "")
        /\ resp' = NoReply
        /\ UNCHANGED <<registryVars, dashboardState, lastApiActivity, keyVars>>

\* --------------------------------------------------- payload validation

\* The range check left out.
IsValidVolumeAnyNumber(v) == v.t = "number"

\* typeof v === 'number' && v >= 0 && v <= 100
IsValidVolume(v) == v.t = "number" /\ v.n >= 0 /\ v.n <= 100

\* ['playing', 'paused', 'stopped'].includes(status)
IsValidStatus(status) == status \in {Str(S_playing), Str(S_paused), Str(S_stopped)}

\* ------------------------------------- self-reported state (WebSocket)

\* The report sent on as the command event.
WsVolumeUpdateAsCommand(id, value) ==
    /\ id \in sockets
    /\ IF IsValidVolume(value)
       THEN /\ dashboardState' = [dashboardState EXCEPT !.volume = value]
            /\ emitted' = << Emit(sockets, "control-volume", value, <<>>) >>
       ELSE /\ dashboardState' = dashboardState
            /\ emitted' = <<>>
    /\ last' = Event("volume_update", id, "", value, "ok")
    /\ resp' = NoReply
    /\ UNCHANGED <<registryVars, activityVars, now, keyVars>>

\* message.type === 'volume_update'
WsVolumeUpdate(id, value) ==
    /\ id \in sockets
    /\ IF IsValidVolume(value)
       THEN /\ dashboardState' = [dashboardState EXCEPT !.volume = value]
            /\ emitted' = << Emit(sockets, "state-volume-changed", value, <<>>) >>
       ELSE /\ dashboardState' = dashboardState
            /\ emitted' = <<>>
    /\ last' = Event("volume_update", id, "", value, "ok")
    /\ resp' = NoReply
    /\ UNCHANGED <<registryVars, activityVars, now, keyVars>>

\* message.type === 'status_update'
WsStatusUpdate(id, status) ==
    /\ id \in sockets
    /\ IF IsValidStatus(status)
       THEN /\ dashboardState' = [dashboardState EXCEPT !.playbackStatus = status]
            /\ emitted' = << Emit(sockets, "state-playback-changed", status, <<>>) >>
       ELSE /\ dashboardState' = dashboardState
            /\ emitted' = <<>>
    /\ last' = Event("status_update", id, "", status, "ok")
    /\ resp' = NoReply
    /\ UNCHANGED <<registryVars, activityVars, now, keyVars>>

\* message.type === 'title_update'
WsTitleUpdate(id, title) ==
    /\ id \in sockets
    /\ IF title.t = "string"
       THEN /\ dashboardState' = [dashboardState EXCEPT !.currentVideoTitle = title]
            /\ emitted' = << Emit(sockets, "state-title-changed", title, <<>>) >>
       ELSE /\ dashboardState' = dashboardState
            /\ emitted' = <<>>
    /\ last' = Event("title_update", id, "", title, "ok")
    /\ resp' = NoReply
    /\ UNCHANGED <<registryVars, activityVars, now, keyVars>>

\* message.type === 'get_controls': the control definitions, which carry the
\* current volume, go back to the asking socket alone.
WsGetControls(id) ==
    /\ id \in sockets
    /\ updateApiActivity
    /\ emitted' = ActivityEvents
                  \o << Emit({id}, "message", dashboardState.volume, <<>>) >>
    /\ last' = Event("get_controls", id, "", Undefined, "ok")
    /\ resp' = NoReply
    /\ UNCHANGED <<registryVars, dashboardState, now, keyVars>>

\* ------------------------------------------ messages of no known type

\* The data of a 'message' event: text that is not JSON ("text"), or the JSON
\* of null, of a number, or of an object with this type field.
Raw(t, type) == [t |-> t, type |-> type]

S_get_controls == <<"g", "e", "t", "_", "c", "o", "n", "t", "r", "o", "l", "s">>

\* The values of message.type that have a branch in the handler.
MessageTypes ==
    {Str(S_get_controls), Str(<<"i", "d", "e", "n", "t", "i", "f", "y">>),
     Str(<<"v", "o", "l", "u", "m", "e", "_", "u", "p", "d", "a", "t", "e">>),
     Str(<<"s", "t", "a", "t", "u", "s", "_", "u", "p", "d", "a", "t", "e">>),
     Str(<<"t", "i", "t", "l", "e", "_", "u", "p", "d", "a", "t", "e">>),
     Str(<<"c", "o", "m", "m", "a", "n", "d">>)}

\* The handler in which every message that parses to something besides null
\* takes the first branch.
MessageBranchFirst(data) ==
    IF data.t \in {"text", "null"} THEN "caught" ELSE "get_controls"

\* Where a message ends in the handler: JSON.parse throws on text that is
\* not JSON and message.type throws on null, both into the handler's catch
\* ("caught"); a number has no type field and an object may have any; a
\* type without a branch falls through every if ("none").
MessageBranch(data) ==
    IF data.t \in {"text", "null"}
    THEN "caught"
    ELSE LET type == IF data.t = "object" THEN data.type ELSE Undefined
         IN  IF type = Str(S_get_controls) THEN "get_controls"
             ELSE IF type \in MessageTypes THEN "other"
             ELSE "none"

\* socket.on('message') for data that ends in the catch, in no branch, or in
\* the first branch (get_controls); the other branches are the handlers
\* above.
WsMessage(id, data) ==
    LET branch == MessageBranch(data)
    IN  /\ id \in sockets
        /\ branch # "other"
        /\ IF branch = "get_controls"
           THEN /\ updateApiActivity
                /\ emitted' = ActivityEvents
                      \o << Emit({id}, "message", dashboardState.volume, <<>>) >>
           ELSE /\ UNCHANGED activityVars
                /\ emitted' = <<>>
        /\ last' = Event("message", id, "", data, branch)
        /\ resp' = NoReply
        /\ UNCHANGED <<registryVars, dashboardState, now, keyVars>>

\* ------------------------------------------------- video references

MaxUrlLength == 500

IdLength == 11

\* The character class [a-zA-Z0-9_-]
IdChars ==
    {"a", "b", "c", "d", "e", "f", "g", "h", "i", "j", "k", "l", "m", "n", "o",
     "p", "q", "r", "s", "t", "u", "v", "w", "x", "y", "z",
     "A", "B", "C", "D", "E", "F", "G", "H", "I", "J", "K", "L", "M", "N", "O",
     "P", "Q", "R", "S", "T", "U", "V", "W", "X", "Y", "Z",
     "0", "1", "2", "3", "4", "5", "6", "7", "8", "9", "_", "-"}

\* The characters `.` does not match.
LineTerminators == {"\n", "\r"}

S_http == <<"h", "t", "t", "p", ":", "/", "/">>

S_https == <<"h", "t", "t", "p", "s", ":", "/", "/">>

S_www == <<"w", "w", "w", ".">>

S_youtubecom == <<"y", "o", "u", "t", "u", "b", "e", ".", "c", "o", "m">>

S_youtube == <<"y", "o", "u", "t", "u", ".", "b", "e">>

S_watch == <<"/", "w", "a", "t", "c", "h", "?", "v", "=">>

S_embed == <<"/", "e", "m", "b", "e", "d", "/">>

S_slash == <<"/">>

\* https?:\/\/
SchemePrefixes == {S_http, S_https}

\* (www\.)?
OptionalWww == {<<>>, S_www}

\* [a-zA-Z0-9_-]{11} right after the first k characters
IdAfter(cs, k) ==
    /\ Len(cs) >= k + IdLength
    /\ \A i \in (k + 1)..(k + IdLength) : cs[i] \in IdChars

\* $ right after the id
EndsAfterId(cs, k) == Len(cs) = k + IdLength

\* (&.*)?$ right after the id
AmpTailAfterId(cs, k) ==
    \/ Len(cs) = k + IdLength
    \/ /\ Len(cs) > k + IdLength
       /\ cs[k + IdLength + 1] = "&"
       /\ \A j \in (k + IdLength + 2)..Len(cs) : cs[j] \notin LineTerminators

\* /^https?:\/\/(www\.)?youtube\.com\/watch\?v=[a-zA-Z0-9_-]{11}(&.*)?$/
WatchPattern(cs) ==
    \E scheme \in SchemePrefixes, www \in OptionalWww :
        LET prefix == scheme \o www \o S_youtubecom \o S_watch
        IN  /\ StartsWith(cs, prefix)
            /\ IdAfter(cs, Len(prefix))
            /\ AmpTailAfterId(cs, Len(prefix))

\* /^https?:\/\/youtu\.be\/[a-zA-Z0-9_-]{11}$/
ShortPattern(cs) ==
    \E scheme \in SchemePrefixes :
        LET prefix == scheme \o S_youtube \o S_slash
        IN  /\ StartsWith(cs, prefix)
            /\ IdAfter(cs, Len(prefix))
            /\ EndsAfterId(cs, Len(prefix))

\* /^https?:\/\/(www\.)?youtube\.com\/embed\/[a-zA-Z0-9_-]{11}$/
EmbedPattern(cs) ==
    \E scheme \in SchemePrefixes, www \in OptionalWww :
        LET prefix == scheme \o www \o S_youtubecom \o S_embed
        IN  /\ StartsWith(cs, prefix)
            /\ IdAfter(cs, Len(prefix))
            /\ EndsAfterId(cs, Len(prefix))

\* /^[a-zA-Z0-9_-]{11}$/
BarePattern(cs) == IdAfter(cs, 0) /\ EndsAfterId(cs, 0)

\* The validation without its length limit.
isValidYouTubeUrlUncapped(url) ==
    /\ url.t = "string"
    /\ \/ WatchPattern(url.s)
       \/ ShortPattern(url.s)
       \/ EmbedPattern(url.s)
       \/ BarePattern(url.s)

isValidYouTubeUrl(url) ==
    IF url.t # "string" \/ Len(url.s) > MaxUrlLength
    THEN FALSE
    ELSE \/ WatchPattern(url.s)
         \/ ShortPattern(url.s)
         \/ EmbedPattern(url.s)
         \/ BarePattern(url.s)

\* ------------------------------------------------ commands (WebSocket)

\* The switch's cases that emit one event without payload; "" for the
\* default case and for the cases that read message.value.
\* The switch whose default falls into the case above it.
CommandEventFallThrough(command) ==
    CASE command = "play-pause" -> "control-play-pause"
      [] command = "pause" -> "control-play-pause"
      [] command = "resume" -> "control-play-pause"
      [] command = "stop" -> "control-stop"
      [] command = "fullscreen" -> "control-fullscreen"
      [] command = "exitfullscreen" -> "control-fullscreen"
      [] command = "next" -> "control-next"
      [] command = "previous" -> "control-previous"
      [] command = "mute" -> "control-mute"
      [] command = "seek-back" -> "control-seek-back"
      [] command = "seek-forward" -> "control-seek-forward"
      [] OTHER -> "control-theater"

CommandEvent(command) ==
    CASE command = "play-pause" -> "control-play-pause"
      [] command = "pause" -> "control-play-pause"
      [] command = "resume" -> "control-play-pause"
      [] command = "stop" -> "control-stop"
      [] command = "fullscreen" -> "control-fullscreen"
      [] command = "exitfullscreen" -> "control-fullscreen"
      [] command = "next" -> "control-next"
      [] command = "previous" -> "control-previous"
      [] command = "mute" -> "control-mute"
      [] command = "seek-back" -> "control-seek-back"
      [] command = "seek-forward" -> "control-seek-forward"
      [] command = "theater" -> "control-theater"
      [] OTHER -> ""

\* message.type === 'command'
WsCommand(id, command, value) ==
    /\ id \in sockets
    /\ updateApiActivity
    /\ CASE command = "play-now" ->
              /\ emitted' = ActivityEvents \o
                    (IF Truthy(value) /\ isValidYouTubeUrl(value)
                     THEN << Emit(sockets, "play-video-now", value, <<>>) >>
                     ELSE <<>>)
              /\ dashboardState' = dashboardState
         [] command = "play" ->
              /\ emitted' = ActivityEvents \o
                    (IF Truthy(value) /\ isValidYouTubeUrl(value)
                     THEN << Emit(sockets, "play-video", value, <<>>) >>
                     ELSE <<>>)
              /\ dashboardState' = dashboardState
         [] command = "volume" ->
              IF IsValidVolume(value)
              THEN /\ dashboardState' = [dashboardState EXCEPT !.volume = value]
                   /\ emitted' = ActivityEvents \o
                         << Emit(sockets, "control-volume", value, <<>>) >>
              ELSE /\ dashboardState' = dashboardState
                   /\ emitted' = ActivityEvents
         [] OTHER ->
              /\ emitted' = ActivityEvents \o
                    (IF CommandEvent(command) # ""
                     THEN << Emit(sockets, CommandEvent(command), Undefined, <<>>) >>
                     ELSE <<>>)
              /\ dashboardState' = dashboardState
    /\ last' = Event("command", id, command, value, "ok")
    /\ resp' = NoReply
    /\ UNCHANGED <<registryVars, now, keyVars>>

\* ------------------------------------------------------- REST surface

\* What a handler does once it runs: its response, the events it emits and
\* the dashboardState it leaves.
Outcome(reply, events, state) == [reply |-> reply, events |-> events, state |-> state]

Success == Reply(200, Len(getExternalClients), -1, <<>>, NoState)

\* The upper end of the range left unchecked.
RestVolumeInvalidNoUpper(level) == level.t # "number" \/ level.n < 0

\* typeof level !== 'number' || level < 0 || level > 100
RestVolumeInvalid(level) == level.t # "number" \/ level.n < 0 \/ level.n > 100

\* The event sent to the external sessions only.
PlayHandlerExternalOnly(ev, url) ==
    IF ~Truthy(url)
    THEN Outcome(ErrorReply(400), <<>>, dashboardState)
    ELSE IF ~isValidYouTubeUrl(url)
    THEN Outcome(ErrorReply(IF url.t = "string" THEN 400 ELSE 500), <<>>, dashboardState)
    ELSE IF Len(url.s) > MaxUrlLength
    THEN Outcome(ErrorReply(400), <<>>, dashboardState)
    ELSE Outcome(Success,
                 << Emit({getExternalClients[i].id : i \in 1..Len(getExternalClients)},
                         ev, url, <<>>) >>,
                 dashboardState)

\* app.post('/api/play') and app.post('/api/play-now'), which differ in the
\* event.  url.substring on a truthy non-string throws: Express answers 500.
PlayHandler(ev, url) ==
    IF ~Truthy(url)
    THEN Outcome(ErrorReply(400), <<>>, dashboardState)
    ELSE IF ~isValidYouTubeUrl(url)
    THEN Outcome(ErrorReply(IF url.t = "string" THEN 400 ELSE 500), <<>>, dashboardState)
    ELSE IF Len(url.s) > MaxUrlLength
    THEN Outcome(ErrorReply(400), <<>>, dashboardState)
    ELSE Outcome(Success, << Emit(sockets, ev, url, <<>>) >>, dashboardState)

\* The event sent to the external sessions only.
VolumeHandlerExternalOnly(level) ==
    IF RestVolumeInvalid(level)
    THEN Outcome(ErrorReply(400), <<>>, dashboardState)
    ELSE Outcome(Success,
                 << Emit({getExternalClients[i].id : i \in 1..Len(getExternalClients)},
                         "control-volume", level, <<>>) >>,
                 [dashboardState EXCEPT !.volume = level])

\* app.post('/api/volume')
VolumeHandler(level) ==
    IF RestVolumeInvalid(level)
    THEN Outcome(ErrorReply(400), <<>>, dashboardState)
    ELSE Outcome(Success, << Emit(sockets, "control-volume", level, <<>>) >>,
                 [dashboardState EXCEPT !.volume = level])

\* The deprecated endpoints with events of their own.
EndpointEventOwn(endpoint) ==
    CASE endpoint = "pause" -> "control-pause"
      [] endpoint = "resume" -> "control-resume"
      [] endpoint = "stop" -> "control-stop"
      [] endpoint = "fullscreen" -> "control-fullscreen"
      [] endpoint = "exitfullscreen" -> "control-exitfullscreen"
      [] endpoint = "next" -> "control-next"
      [] endpoint = "previous" -> "control-previous"
      [] endpoint = "mute" -> "control-mute"
      [] endpoint = "theater" -> "control-theater"
      [] endpoint = "seek-backward" -> "control-seek-back"
      [] endpoint = "seek-forward" -> "control-seek-forward"

\* The event of each endpoint whose handler only emits.
EndpointEvent(endpoint) ==
    CASE endpoint = "pause" -> "control-play-pause"
      [] endpoint = "resume" -> "control-play-pause"
      [] endpoint = "stop" -> "control-stop"
      [] endpoint = "fullscreen" -> "control-fullscreen"
      [] endpoint = "exitfullscreen" -> "control-fullscreen"
      [] endpoint = "next" -> "control-next"
      [] endpoint = "previous" -> "control-previous"
      [] endpoint = "mute" -> "control-mute"
      [] endpoint = "theater" -> "control-theater"
      [] endpoint = "seek-backward" -> "control-seek-back"
      [] endpoint = "seek-forward" -> "control-seek-forward"

ToggleEndpoints == {"pause", "resume", "stop", "fullscreen", "exitfullscreen",
                    "next", "previous", "mute", "theater"}

SeekEndpoints == {"seek-backward", "seek-forward"}

\* The handler that answers and leaves the event for later.
ToggleHandlerDeferred(endpoint) == Outcome(Success, <<>>, dashboardState)

\* The handlers that only emit: app.post('/api/pause') ... '/api/theater'
ToggleHandler(endpoint) ==
    Outcome(Success, << Emit(sockets, EndpointEvent(endpoint), Undefined, <<>>) >>,
            dashboardState)

\* app.post('/api/seek-backward') and app.post('/api/seek-forward'); body is
\* Undefined for an empty request body.
SeekHandler(endpoint, body) ==
    IF body # Undefined
    THEN Outcome(ErrorReply(400), <<>>, dashboardState)
    ELSE IF Len(getExternalClients) = 0
    THEN Outcome(ErrorReply(503), <<>>, dashboardState)
    ELSE ToggleHandler(endpoint)

\* The snapshot taken when the server started.
StateHandlerStale ==
    Outcome(Reply(200, -1, -1, <<>>,
                  [volume |-> Num(100), playbackStatus |-> Str(S_stopped),
                   currentVideoTitle |-> Str(S_NoVideoLoaded)]),
            <<>>, dashboardState)

\* app.get('/api/state')
StateHandler ==
    Outcome(Reply(200, -1, -1, <<>>, dashboardState), <<>>, dashboardState)

AuthAttempt(success) == Emit(sockets, "auth-attempt", Bool(success), <<>>)

\* The 401 of requireApiKey: res.status(401).json({success: false, error})
Unauthorized(gate) ==
    [ErrorReply(401) EXCEPT !.error =
        IF gate = "missing"
        THEN "API key required. Include X-API-Key header in your request."
        ELSE "Invalid API key"]

\* The middleware in front of the handlers stops a request, whatever its
\* endpoint and body:
\*   "api-limited"   apiLimiter (app.use('/api/')) answers 429;
\*   "missing"       requireApiKey finds no X-API-Key header: 401;
\*   "invalid"       requireApiKey finds the key outside the valid set: 401;
\*   "play-limited"  the key is valid, and playLimiter answers 429.
\* The limiters count requests per address and time window; which request
\* they stop is left open.
StoppingGates == {"api-limited", "missing", "invalid", "play-limited"}

RestStopped(gate) ==
    /\ last' = Event("rest", 0, "", Undefined, gate)
    /\ CASE gate = "api-limited" ->
              /\ resp' = ErrorReply(429)
              /\ emitted' = <<>>
              /\ UNCHANGED activityVars
         [] gate \in {"missing", "invalid"} ->
              /\ resp' = Unauthorized(gate)
              /\ emitted' = << AuthAttempt(FALSE) >>
              /\ UNCHANGED activityVars
         [] gate = "play-limited" ->
              /\ resp' = ErrorReply(429)
              /\ emitted' = << AuthAttempt(TRUE) >> \o ActivityEvents
              /\ updateApiActivity
    /\ UNCHANGED <<registryVars, dashboardState, now, keyVars>>

\* A request that passes requireApiKey (and the limiters) and reaches the
\* handler of its endpoint.
Protected(endpoint, arg, outcome) ==
    /\ last' = Event("rest", 0, endpoint, arg, "ok")
    /\ resp' = outcome.reply
    /\ emitted' = << AuthAttempt(TRUE) >> \o ActivityEvents \o outcome.events
    /\ updateApiActivity
    /\ dashboardState' = outcome.state
    /\ UNCHANGED <<registryVars, now, keyVars>>

RestPlay(url) == Protected("play", url, PlayHandler("play-video", url))

RestPlayNow(url) == Protected("play-now", url, PlayHandler("play-video-now", url))

RestVolume(level) == Protected("volume", level, VolumeHandler(level))

RestToggle(endpoint) == Protected(endpoint, Undefined, ToggleHandler(endpoint))

RestSeek(endpoint, body) == Protected(endpoint, body, SeekHandler(endpoint, body))

RestState == Protected("state", Undefined, StateHandler)

\* app.get('/api/health') and app.get('/api/debug/clients') have no
\* requireApiKey in front of them.
RestHealth ==
    /\ last' = Event("rest", 0, "health", Undefined, "ok")
    /\ resp' = Reply(200, -1, -1, getExternalClients, NoState)
    /\ emitted' = <<>>
    /\ UNCHANGED <<registryVars, dashboardState, activityVars, now, keyVars>>

RestDebugClients ==
    /\ last' = Event("rest", 0, "debug/clients", Undefined, "ok")
    /\ resp' = Reply(200, Len(getExternalClients), Len(connectedClients),
                     connectedClients, NoState)
    /\ emitted' = <<>>
    /\ UNCHANGED <<registryVars, dashboardState, activityVars, now, keyVars>>

\* ---------------------------------------------------------- the key store

Whitespace == {" ", "\t", "\n", "\r"}

\* String.prototype.trim
Trim(cs) ==
    LET solid == {i \in 1..Len(cs) : cs[i] \notin Whitespace}
    IN  IF solid = {}
        THEN <<>>
        ELSE SubSeq(cs, CHOOSE i \in solid : \A j \in solid : i <= j,
                        CHOOSE i \in solid : \A j \in solid : i >= j)

\* String.prototype.split with a one-character separator
RECURSIVE Split(_, _)
Split(cs, sep) ==
    LET at == {i \in 1..Len(cs) : cs[i] = sep}
    IN  IF at = {}
        THEN << cs >>
        ELSE LET k == CHOOSE i \in at : \A j \in at : i <= j
             IN  << SubSeq(cs, 1, k - 1) >> \o Split(SubSeq(cs, k + 1, Len(cs)), sep)

\* String.prototype.substring(start, end): both clamped to the string, and
\* swapped if start is the larger.
Substring(cs, start, end) ==
    LET Clamp(k) == IF k < 0 THEN 0 ELSE IF k > Len(cs) THEN Len(cs) ELSE k
        a == Clamp(start)
        b == Clamp(end)
    IN  IF a <= b THEN SubSeq(cs, a + 1, b) ELSE SubSeq(cs, b + 1, a)

\* String.prototype.toLowerCase, on the letters a key can hold.
ToLowerCase(cs) ==
    LET Lower(c) == CASE c = "A" -> "a" [] c = "B" -> "b" [] c = "C" -> "c"
                      [] c = "D" -> "d" [] c = "E" -> "e" [] c = "F" -> "f"
                      [] OTHER -> c
    IN  [i \in 1..Len(cs) |-> Lower(cs[i])]

\* crypto.randomBytes(32).toString('hex'): 64 characters
KeyLength == 64

HexDigits == <<"0", "1", "2", "3", "4", "5", "6", "7", "8", "9",
               "a", "b", "c", "d", "e", "f">>

\* /^[0-9a-f]{64}$/i
IsKeyFormat(cs) ==
    /\ Len(cs) = KeyLength
    /\ \A i \in 1..Len(cs) :
          \E d \in 1..Len(HexDigits) : ToLowerCase(<< cs[i] >>) = << HexDigits[d] >>

\* generateApiKey(): the n-th random key.  Random keys do not repeat and do
\* not hit a key that exists.
generateApiKey(n) == [j \in 1..KeyLength |-> HexDigits[((7 * n + 3 * j) % 16) + 1]]

\* crypto.randomBytes(16).toString('hex'): the n-th random record id.
RandomId(n) == <<"i", "d">> \o << HexDigits[(n % 16) + 1] >>

\* A key of the environment in the format of the generated ones.
S_envKey == [j \in 1..KeyLength |-> HexDigits[((5 * j) % 16) + 1]]

S_devkey == <<"d", "e", "v", "k", "e", "y">>

\* process.env.API_KEYS
ProcessEnvApiKeys == S_envKey \o <<",", " ", ",", " ">> \o S_devkey \o <<" ">>

\* The parts of the variable as they are, neither trimmed nor filtered.
EnvKeysUntrimmed == Split(ProcessEnvApiKeys, ",")

\* (process.env.API_KEYS || '').split(',').map(trim).filter(length > 0)
EnvKeys ==
    LET parts == Split(ProcessEnvApiKeys, ",")
        trimmed == [i \in 1..Len(parts) |-> Trim(parts[i])]
        NonEmpty(key) == Len(key) > 0
    IN  SelectSeq(trimmed, NonEmpty)

\* loadApiKeys(): the records of the file, or [] if the file is missing,
\* cannot be read (read = FALSE) or cannot be parsed.
loadApiKeys(read) ==
    IF read /\ apiKeysFile.parsable THEN apiKeysFile.keys ELSE <<>>

\* saveApiKeys(keys): [ok, file].  writeFileSync truncates the file and then
\* writes it: it succeeds ("ok"), fails before it has touched the file
\* ("refused": no permission, read-only file system) or fails after it has
\* truncated it ("torn": disk full, I/O error), leaving no parsable content.
saveApiKeys(keys, write) ==
    CASE write = "ok" ->
            [ok |-> TRUE, file |-> [parsable |-> TRUE, keys |-> keys]]
      [] write = "refused" ->
            [ok |-> FALSE, file |-> apiKeysFile]
      [] write = "torn" ->
            [ok |-> FALSE, file |-> [parsable |-> FALSE, keys |-> <<>>]]

\* [...new Set(keys)]: the first occurrence of every key, in order.
Dedupe(keys) ==
    LET firsts == {i \in 1..Len(keys) : \A j \in 1..(i - 1) : keys[j] # keys[i]}
        Nth(k) == CHOOSE i \in firsts : Cardinality({j \in firsts : j <= i}) = k
    IN  [k \in 1..Cardinality(firsts) |-> keys[Nth(k)]]

\* getAllApiKeys() without the deduplication.
getAllApiKeysNoDedupe(read) ==
    LET fileKeys == loadApiKeys(read)
    IN  EnvKeys \o [i \in 1..Len(fileKeys) |-> fileKeys[i].key]

\* getAllApiKeys(): the environment's keys, then the file's, deduplicated.
getAllApiKeys(read) ==
    LET fileKeys == loadApiKeys(read)
    IN  Dedupe(EnvKeys \o [i \in 1..Len(fileKeys) |-> fileKeys[i].key])

\* currentKeys.includes(apiKey)
Includes(keys, key) == \E i \in 1..Len(keys) : keys[i] = key

\* requireApiKey that tests the key's format first and answers a key of
\* another format like a missing one.
requireApiKeyFormatFirst(apiKey) ==
    IF ~Truthy(apiKey) \/ ~IsKeyFormat(apiKey.s)
    THEN "missing"
    ELSE IF ~Includes(getAllApiKeys(TRUE), apiKey.s)
    THEN "invalid"
    ELSE "ok"

\* requireApiKey that accepts every key that is present.
requireApiKeyAnyKey(apiKey) ==
    IF ~Truthy(apiKey) THEN "missing" ELSE "ok"

\* requireApiKey(req, res, next): how it ends for this X-API-Key header.  The
\* valid keys are computed from the environment and the file at every call.
requireApiKey(apiKey) ==
    IF ~Truthy(apiKey)
    THEN "missing"
    ELSE IF ~Includes(getAllApiKeys(TRUE), apiKey.s)
    THEN "invalid"
    ELSE "ok"

\* ------------------------------------------------------ the key endpoints

\* Requests with fresh keys or ids a run may make.
MaxKeys == 2

\* The parameters of a key request: req.params.id, req.body.name, req.body.key.
KeyArgs(id, name, key) == [t |-> "params", id |-> id, name |-> name, key |-> key]

\* What a key handler does: its response, the file it leaves, and whether it
\* made a record from random bytes.
KeyOutcome(reply, file, fresh) ==
    [reply |-> reply, events |-> <<>>, state |-> dashboardState,
     file |-> file, fresh |-> fresh]

\* What a control handler does, which leaves the file alone.
ControlOutcome(outcome) ==
    [reply |-> outcome.reply, events |-> outcome.events, state |-> outcome.state,
     file |-> apiKeysFile, fresh |-> 0]

KeysReply(status, keys) == [ErrorReply(status) EXCEPT !.keys = keys]

\* The handler that appends to the records read when the server started (the
\* file was empty then) instead of reading the file again.
CreateKeyHandlerCached(name, read, write) ==
    IF ~Truthy(name)
    THEN KeyOutcome(ErrorReply(400), apiKeysFile, 0)
    ELSE IF name.t # "string"
    THEN KeyOutcome(ErrorReply(500), apiKeysFile, 0)
    ELSE LET entry == [id |-> RandomId(nextKey), name |-> Trim(name.s),
                       key |-> generateApiKey(nextKey), createdAt |-> now]
             saved == saveApiKeys(<< entry >>, write)
         IN  IF saved.ok
             THEN KeyOutcome(KeysReply(200, << [id |-> entry.id, key |-> entry.key] >>),
                             saved.file, 1)
             ELSE KeyOutcome(ErrorReply(500), saved.file, 1)

\* app.post('/api/admin/keys').  A truthy name that is not a string makes
\* name.trim() throw, which Express answers with 500.
CreateKeyHandler(name, read, write) ==
    IF ~Truthy(name)
    THEN KeyOutcome(ErrorReply(400), apiKeysFile, 0)
    ELSE IF name.t # "string"
    THEN KeyOutcome(ErrorReply(500), apiKeysFile, 0)
    ELSE LET entry == [id |-> RandomId(nextKey), name |-> Trim(name.s),
                       key |-> generateApiKey(nextKey), createdAt |-> now]
             saved == saveApiKeys(Append(loadApiKeys(read), entry), write)
         IN  IF saved.ok
             THEN KeyOutcome(KeysReply(200, << [id |-> entry.id, key |-> entry.key] >>),
                             saved.file, 1)
             ELSE KeyOutcome(ErrorReply(500), saved.file, 1)

\* app.post('/api/setup/generate-key'): the caller supplies the key.
SetupKeyHandler(name, key, read, write) ==
    IF ~Truthy(name) \/ ~Truthy(key)
    THEN KeyOutcome(ErrorReply(400), apiKeysFile, 0)
    ELSE IF key.t # "string" \/ ~IsKeyFormat(key.s)
    THEN KeyOutcome(ErrorReply(400), apiKeysFile, 0)
    ELSE IF name.t # "string"
    THEN KeyOutcome(ErrorReply(500), apiKeysFile, 0)
    ELSE LET entry == [id |-> RandomId(nextKey), name |-> Trim(name.s),
                       key |-> ToLowerCase(key.s), createdAt |-> now]
             saved == saveApiKeys(Append(loadApiKeys(read), entry), write)
         IN  IF saved.ok
             THEN KeyOutcome(KeysReply(200, <<>>), saved.file, 1)
             ELSE KeyOutcome(ErrorReply(500), saved.file, 1)

\* k.key.substring(0, 8) + '...' + k.key.substring(k.key.length - 4)
Mask(key) ==
    Substring(key, 0, 8) \o <<".", ".", ".">> \o Substring(key, Len(key) - 4, Len(key))

\* app.get('/api/admin/keys'): the file's records and the environment's keys,
\* the keys masked.
ListKeysHandler(read) ==
    LET fileKeys == loadApiKeys(read)
        maskedKeys == [i \in 1..Len(fileKeys) |->
                          [id |-> fileKeys[i].id, name |-> fileKeys[i].name,
                           key |-> Mask(fileKeys[i].key), source |-> "file"]]
        maskedEnvKeys == [i \in 1..Len(EnvKeys) |->
                          [id |-> <<"e", "n", "v", "-", HexDigits[i]>>,
                           name |-> <<>>,
                           key |-> Mask(EnvKeys[i]), source |-> "env"]]
    IN  KeyOutcome(KeysReply(200, maskedKeys \o maskedEnvKeys), apiKeysFile, 0)

\* app.get('/api/keys/list'): the file's records as they are.
OpenListHandler(read) ==
    KeyOutcome(KeysReply(200, loadApiKeys(read)), apiKeysFile, 0)

\* The handler that removes the first record, whichever was found.
DeleteKeyHandlerFirst(id, read, write) ==
    LET fileKeys == loadApiKeys(read)
        keyIndex == FindIndex(fileKeys, id)
    IN  IF keyIndex = 0
        THEN KeyOutcome(ErrorReply(404), apiKeysFile, 0)
        ELSE LET saved == saveApiKeys(Tail(fileKeys), write)
             IN  KeyOutcome(ErrorReply(IF saved.ok THEN 200 ELSE 500), saved.file, 0)

\* app.delete('/api/admin/keys/:id') and app.delete('/api/keys/:keyId')
DeleteKeyHandler(id, read, write) ==
    LET fileKeys == loadApiKeys(read)
        keyIndex == FindIndex(fileKeys, id)
    IN  IF keyIndex = 0
        THEN KeyOutcome(ErrorReply(404), apiKeysFile, 0)
        ELSE LET saved == saveApiKeys(Splice(fileKeys, keyIndex), write)
             IN  KeyOutcome(ErrorReply(IF saved.ok THEN 200 ELSE 500), saved.file, 0)

\* The handler that replaces the record by one with a new key as well.
RenameKeyHandlerRekeys(id, name, read, write) ==
    IF ~Truthy(name)
    THEN KeyOutcome(ErrorReply(400), apiKeysFile, 0)
    ELSE IF name.t # "string"
    THEN KeyOutcome(ErrorReply(500), apiKeysFile, 0)
    ELSE IF Trim(name.s) = <<>>
    THEN KeyOutcome(ErrorReply(400), apiKeysFile, 0)
    ELSE LET fileKeys == loadApiKeys(read)
             keyIndex == FindIndex(fileKeys, id)
         IN  IF keyIndex = 0
             THEN KeyOutcome(ErrorReply(404), apiKeysFile, 0)
             ELSE LET saved ==
                         saveApiKeys([fileKeys EXCEPT ![keyIndex].name = Trim(name.s),
                                                      ![keyIndex].key = Trim(name.s)],
                                     write)
                  IN  KeyOutcome(ErrorReply(IF saved.ok THEN 200 ELSE 500),
                                 saved.file, 0)

\* app.patch('/api/keys/:keyId').  A truthy name that is not a string makes
\* name.trim() throw, which Express answers with 500.
RenameKeyHandler(id, name, read, write) ==
    IF ~Truthy(name)
    THEN KeyOutcome(ErrorReply(400), apiKeysFile, 0)
    ELSE IF name.t # "string"
    THEN KeyOutcome(ErrorReply(500), apiKeysFile, 0)
    ELSE IF Trim(name.s) = <<>>
    THEN KeyOutcome(ErrorReply(400), apiKeysFile, 0)
    ELSE LET fileKeys == loadApiKeys(read)
             keyIndex == FindIndex(fileKeys, id)
         IN  IF keyIndex = 0
             THEN KeyOutcome(ErrorReply(404), apiKeysFile, 0)
             ELSE LET saved ==
                         saveApiKeys([fileKeys EXCEPT ![keyIndex].name = Trim(name.s)],
                                     write)
                  IN  KeyOutcome(ErrorReply(IF saved.ok THEN 200 ELSE 500),
                                 saved.file, 0)

\* The endpoints behind playLimiter.
PlayLimited == {"play", "play-now", "volume"} \cup ToggleEndpoints \cup SeekEndpoints

\* A request to an endpoint behind requireApiKey, with its X-API-Key header:
\* apiLimiter (limit = "api": it answers 429), then requireApiKey, then
\* playLimiter where the endpoint has it (limit = "play": it answers 429),
\* then the handler.
KeyedRequest(apiKey, limit, endpoint, arg, outcome) ==
    LET auth == requireApiKey(apiKey)
        gate == CASE limit = "api" -> "api-limited"
                  [] limit # "api" /\ auth # "ok" -> auth
                  [] limit = "play" /\ auth = "ok" -> "play-limited"
                  [] OTHER -> "ok"
    IN  /\ limit = "play" => endpoint \in PlayLimited
        /\ apiKeyHeader' = apiKey
        /\ last' = Event("rest", 0, endpoint, arg, gate)
        /\ CASE gate = "api-limited" ->
                  /\ resp' = ErrorReply(429)
                  /\ emitted' = <<>>
                  /\ UNCHANGED <<activityVars, dashboardState, apiKeysFile, nextKey>>
             [] gate \in {"missing", "invalid"} ->
                  /\ resp' = Unauthorized(gate)
                  /\ emitted' = << AuthAttempt(FALSE) >>
                  /\ UNCHANGED <<activityVars, dashboardState, apiKeysFile, nextKey>>
             [] gate = "play-limited" ->
                  /\ resp' = ErrorReply(429)
                  /\ emitted' = << AuthAttempt(TRUE) >> \o ActivityEvents
                  /\ updateApiActivity
                  /\ UNCHANGED <<dashboardState, apiKeysFile, nextKey>>
             [] gate = "ok" ->
                  /\ resp' = outcome.reply
                  /\ emitted' = << AuthAttempt(TRUE) >> \o ActivityEvents
                                   \o outcome.events
                  /\ updateApiActivity
                  /\ dashboardState' = outcome.state
                  /\ apiKeysFile' = outcome.file
                  /\ nextKey' = nextKey + outcome.fresh
        /\ UNCHANGED <<registryVars, now>>

\* A request to a key endpoint that has no requireApiKey: apiLimiter, then
\* the handler.
OpenRequest(limit, endpoint, arg, outcome) ==
    /\ apiKeyHeader' = Undefined
    /\ last' = Event("rest", 0, endpoint, arg,
                     IF limit = "api" THEN "api-limited" ELSE "open")
    /\ IF limit = "api"
       THEN /\ resp' = ErrorReply(429)
            /\ UNCHANGED <<apiKeysFile, nextKey>>
       ELSE /\ resp' = outcome.reply
            /\ apiKeysFile' = outcome.file
            /\ nextKey' = nextKey + outcome.fresh
    /\ emitted' = <<>>
    /\ UNCHANGED <<registryVars, dashboardState, activityVars, now>>

AdminCreateKey(apiKey, limit, name, read, write) ==
    /\ nextKey <= MaxKeys
    /\ KeyedRequest(apiKey, limit, "admin-create", KeyArgs(<<>>, name, Undefined),
                    CreateKeyHandler(name, read, write))

AdminListKeys(apiKey, limit, read) ==
    KeyedRequest(apiKey, limit, "admin-list", KeyArgs(<<>>, Undefined, Undefined),
                 ListKeysHandler(read))

AdminDeleteKey(apiKey, limit, id, read, write) ==
    KeyedRequest(apiKey, limit, "admin-delete", KeyArgs(id, Undefined, Undefined),
                 DeleteKeyHandler(id, read, write))

OpenListKeys(limit, read) ==
    OpenRequest(limit, "list", KeyArgs(<<>>, Undefined, Undefined), OpenListHandler(read))

OpenDeleteKey(limit, id, read, write) ==
    OpenRequest(limit, "delete", KeyArgs(id, Undefined, Undefined),
                DeleteKeyHandler(id, read, write))

OpenRenameKey(limit, id, name, read, write) ==
    OpenRequest(limit, "rename", KeyArgs(id, name, Undefined),
                RenameKeyHandler(id, name, read, write))

SetupKey(limit, name, key, read, write) ==
    /\ nextKey <= MaxKeys
    /\ OpenRequest(limit, "setup", KeyArgs(<<>>, name, key),
                   SetupKeyHandler(name, key, read, write))

\* The control endpoints with the key they are called with.
KeyedVolume(apiKey, limit, level) ==
    KeyedRequest(apiKey, limit, "volume", level, ControlOutcome(VolumeHandler(level)))

KeyedState(apiKey, limit) ==
    /\ limit # "play"
    /\ KeyedRequest(apiKey, limit, "state", Undefined, ControlOutcome(StateHandler))

\* ------------------------------------------------------------- inputs

S_Dashboard1 == <<"D", "a", "s", "h", "b", "o", "a", "r", "d", "-", "1">>

S_dashboard1 == <<"d", "a", "s", "h", "b", "o", "a", "r", "d", "-", "1">>

S_Phone == <<"P", "h", "o", "n", "e">>

S_bareId == <<"d", "Q", "w", "4", "w", "9", "W", "g", "X", "c", "Q">>

S_notAUrl == <<"n", "o", "t", " ", "a", " ", "u", "r", "l">>

S_forty == <<"4", "0">>

\* name fields of identify messages: a dashboard name, the same in lower
\* case, another name, the empty string, no name, a number.
NameInputs == {Str(S_Dashboard1), Str(S_dashboard1), Str(S_Phone), Str(<<>>),
               Undefined, Num(42)}

\* volume payloads: below, at the ends of, inside and above the range, a
\* numeric string, nothing.
VolumeInputs == {Num(-1), Num(0), Num(40), Num(100), Num(101),
                 Str(S_forty), Undefined}

StatusInputs == {Str(S_playing), Str(S_paused), Str(S_stopped), Str(S_Phone),
                 Undefined}

\* The names that decide the two roles.
RoleNames == {Str(S_Dashboard1), Str(S_Phone)}

\* The name that turns a session, external since its connection, into a
\* dashboard.
DashboardNames == {Str(S_Dashboard1)}

TitleInputs == {Str(S_Phone), Num(42)}

UrlInputs == {Str(S_bareId), Str(S_notAUrl), Undefined}

Commands == {"play-now", "play", "play-pause", "pause", "resume", "stop",
             "fullscreen", "exitfullscreen", "volume", "next", "previous",
             "mute", "seek-back", "seek-forward", "theater", "reboot"}

\* The payload sent along with a command.
ValuesOf(command) ==
    CASE command \in {"play", "play-now"} -> UrlInputs
      [] command = "volume" -> VolumeInputs
      [] OTHER -> {Undefined}

Ids == 1..MaxSessions

\* ------------------------------------------------------------- the system

\* The registry's handlers ...
Sessions(names) ==
    \/ Connect
    \/ \E id \in Ids : Disconnect(id)
    \/ \E id \in Ids, name \in names : WsIdentify(id, name)

\* ... and the endpoints that show the registry.
Registry(names) ==
    \/ Sessions(names)
    \/ RestHealth
    \/ RestDebugClients

\* The handlers that write dashboardState.
StateWriters ==
    \/ \E id \in Ids, value \in VolumeInputs : WsVolumeUpdate(id, value)
    \/ \E id \in Ids, status \in StatusInputs : WsStatusUpdate(id, status)
    \/ \E id \in Ids, title \in TitleInputs : WsTitleUpdate(id, title)
    \/ \E id \in Ids, value \in VolumeInputs : WsCommand(id, "volume", value)
    \/ \E level \in VolumeInputs : RestVolume(level)

\* The other commands.
Commanders ==
    \/ \E id \in Ids : WsGetControls(id)
    \/ \E id \in Ids, command \in Commands \ {"volume"} :
          \E value \in ValuesOf(command) : WsCommand(id, command, value)
    \/ \E url \in UrlInputs : RestPlay(url)
    \/ \E url \in UrlInputs : RestPlayNow(url)
    \/ \E endpoint \in ToggleEndpoints : RestToggle(endpoint)
    \/ \E endpoint \in SeekEndpoints, body \in {Undefined, Num(42)} : RestSeek(endpoint, body)
    \/ RestState

Stoppers == \E gate \in StoppingGates : RestStopped(gate)

Next ==
    \/ Registry(RoleNames)
    \/ StateWriters
    \/ Commanders
    \/ Stoppers

Spec == Init /\ [][Next]_vars

\* The registry alone, with every kind of name.
NextRegistry == Registry(NameInputs)

SpecRegistry == Init /\ [][NextRegistry]_vars

\* The handlers that write dashboardState, with sessions of both roles and
\* the middleware.  The handlers left out leave dashboardState unchanged.
NextState ==
    \/ Sessions(DashboardNames)
    \/ StateWriters
    \/ Stoppers

SpecState == Init /\ [][NextState]_vars

\* The state reports and every command, sent by sessions of both roles, and
\* the state endpoint that shows what they left.
ReportVolumes == {Num(40), Num(101)}

ReportStatuses == {Str(S_playing), Str(S_Phone)}

CommandValues(command) ==
    CASE command \in {"play", "play-now"} -> {Str(S_bareId)}
      [] command = "volume" -> {Num(0), Num(101)}
      [] OTHER -> {Undefined}

NextReports ==
    \/ Sessions(DashboardNames)
    \/ \E id \in Ids, value \in ReportVolumes : WsVolumeUpdate(id, value)
    \/ \E id \in Ids, status \in ReportStatuses : WsStatusUpdate(id, status)
    \/ \E id \in Ids, title \in TitleInputs : WsTitleUpdate(id, title)
    \/ \E id \in Ids, command \in Commands :
          \E value \in CommandValues(command) : WsCommand(id, command, value)
    \/ \E level \in {Num(100), Num(-1)} : RestVolume(level)
    \/ RestState

SpecReports == Init /\ [][NextReports]_vars

\* Every command over both surfaces, and the endpoints without a key.
NextCommands ==
    \/ Registry(DashboardNames)
    \/ Commanders
    \/ \E id \in Ids, value \in CommandValues("volume") : WsCommand(id, "volume", value)
    \/ \E level \in {Num(100), Num(-1)} : RestVolume(level)

SpecCommands == Init /\ [][NextCommands]_vars

\* Messages of every shape from sessions of both roles, while the flag is
\* true or false and the volume is or is not the initial one.
MessageInputs ==
    {Raw("text", Undefined), Raw("null", Undefined), Raw("number", Undefined),
     Raw("object", Undefined), Raw("object", Num(1)), Raw("object", Str(S_Phone)),
     Raw("object", Str(S_get_controls))}

NextMessages ==
    \/ Sessions(DashboardNames)
    \/ \E id \in Ids, data \in MessageInputs : WsMessage(id, data)
    \/ \E id \in Ids : WsVolumeUpdate(id, Num(40))

SpecMessages == Init /\ [][NextMessages]_vars

\* The registry with late events: socket.io itself fires 'disconnect' once per
\* socket and hands a closed socket no message; here the handlers also run
\* for a socket that is already unregistered.
NextLate ==
    \/ NextRegistry
    \/ \E id \in Ids : LateDisconnect(id)
    \/ \E id \in Ids, name \in NameInputs : LateIdentify(id, name)

SpecLate == Init /\ [][NextLate]_vars

\* ------------------------------------------------------- key store inputs

S_paddedTV == <<" ", "T", "V", " ">>

S_blank == <<" ", " ">>

S_envId == <<"e", "n", "v", "-", "0">>

\* A key in upper case, as a caller of the setup endpoint may supply it.
S_userKey == [j \in 1..KeyLength |-> <<"A", "B", "C", "D", "E", "F", "0", "9">>[(j % 8) + 1]]

HeaderInputs ==
    {Undefined, Str(S_envKey), Str(ToLowerCase(S_userKey))}
        \cup {Str(generateApiKey(n)) : n \in 1..MaxKeys}

\* The names a key is created with ...
KeyNameInputs == {Str(S_Phone), Undefined, Num(42)}

\* ... and renamed to.
RenameInputs == {Str(S_paddedTV), Str(S_blank), Undefined, Num(42)}

KeyIdInputs == {RandomId(n) : n \in 1..MaxKeys} \cup {S_envId}

SetupKeyInputs == {Str(S_envKey), Str(S_userKey), Str(S_Phone), Undefined}

\* The endpoints behind requireApiKey called with every kind of key, and the
\* endpoints that change the file.  The file is read and written without
\* failure.  apiLimiter and playLimiter may stop a request.
NextKeys ==
    \/ \E apiKey \in HeaderInputs : AdminCreateKey(apiKey, "none", Str(S_Phone), TRUE, "ok")
    \/ \E apiKey \in HeaderInputs, id \in KeyIdInputs :
          AdminDeleteKey(apiKey, "none", id, TRUE, "ok")
    \/ \E key \in {Str(S_envKey), Str(S_userKey)} :
          SetupKey("none", Str(S_Phone), key, TRUE, "ok")
    \/ \E apiKey \in HeaderInputs, limit \in {"none", "play"} :
          KeyedVolume(apiKey, limit, Num(40))
    \/ \E apiKey \in HeaderInputs : KeyedState(apiKey, "api")

SpecKeys == Init /\ [][NextKeys]_vars

\* Keys of every kind: none, the empty string, keys of the environment, keys
\* of the file when they are and when they are not in it, and a string that
\* is no key.
AuthInputs == HeaderInputs \cup {Str(<<>>), Str(S_devkey), Str(S_notAUrl)}

\* requireApiKey in front of two endpoints, while keys come and go.
NextAuth ==
    \/ \E apiKey \in AuthInputs : AdminCreateKey(apiKey, "none", Str(S_Phone), TRUE, "ok")
    \/ \E id \in KeyIdInputs : OpenDeleteKey("none", id, TRUE, "ok")
    \/ \E apiKey \in AuthInputs, limit \in {"none", "api"} : KeyedState(apiKey, limit)

SpecAuth == Init /\ [][NextAuth]_vars

\* The valid key set while the file gains and loses records, some of them
\* with a key of the environment or with the key of another record, read by
\* requireApiKey for keys of every kind.
NextKeySet ==
    \/ \E key \in {Str(S_envKey), Str(S_userKey)} :
          SetupKey("none", Str(S_Phone), key, TRUE, "ok")
    \/ \E id \in KeyIdInputs : OpenDeleteKey("none", id, TRUE, "ok")
    \/ \E apiKey \in AuthInputs, limit \in {"none", "api"} : KeyedState(apiKey, limit)

SpecKeySet == Init /\ [][NextKeySet]_vars

\* The endpoints that read and write the file, with these names and keys and
\* these outcomes of reading and writing the file.
Store(names, renames, keys, reads, writes) ==
    \/ \E name \in names, read \in reads, write \in writes :
          AdminCreateKey(Str(S_envKey), "none", name, read, write)
    \/ \E id \in KeyIdInputs, read \in reads, write \in writes :
          AdminDeleteKey(Str(S_envKey), "none", id, read, write)
    \/ \E read \in reads : AdminListKeys(Str(S_envKey), "none", read)
    \/ \E limit \in {"none", "api"}, read \in reads : OpenListKeys(limit, read)
    \/ \E id \in KeyIdInputs, read \in reads, write \in writes :
          OpenDeleteKey("none", id, read, write)
    \/ \E id \in KeyIdInputs, name \in renames, read \in reads, write \in writes :
          OpenRenameKey("none", id, name, read, write)
    \/ \E name \in names, key \in keys, read \in reads, write \in writes :
          SetupKey("none", name, key, read, write)

\* Every kind of name, id and key; the file is read and written without
\* failure.
NextStore == Store(KeyNameInputs, RenameInputs, SetupKeyInputs, {TRUE}, {"ok"})

SpecStore == Init /\ [][NextStore]_vars

\* Well-formed requests; reading and writing the file may fail.
NextStoreFaulty ==
    Store({Str(S_Phone)}, {Str(S_paddedTV)}, {Str(S_userKey)},
          BOOLEAN, {"ok", "refused", "torn"})

SpecStoreFaulty == Init /\ [][NextStoreFaulty]_vars

\* Well-formed create, delete and rename requests that are pending together:
\* every handler reads and writes the file with readFileSync and
\* writeFileSync and has no await, so the event loop runs the handlers of
\* concurrent requests one after another, in any order.
NextMutations ==
    Store({Str(S_Phone)}, {Str(S_paddedTV)}, {Str(S_userKey)}, {TRUE}, {"ok"})

SpecMutations == Init /\ [][NextMutations]_vars

\* The clock, the sweep and the handlers that do and do not count as
\* controller activity.  The timer fires once per interval; here a sweep may
\* run at any moment, any number of times.
NextTime ==
    \/ Connect
    \/ \E id \in Ids : Disconnect(id)
    \/ Tick
    \/ Sweep
    \/ RestState
    \/ Stoppers
    \/ \E id \in Ids : WsCommand(id, "mute", Undefined)
    \/ \E id \in Ids : WsStatusUpdate(id, Str(S_playing))

SpecTime == Init /\ [][NextTime]_vars

\* The sweep on its schedule, between handlers that do and do not count as
\* controller activity, at the sweep's instants and between them.
NextSchedule ==
    \/ Connect
    \/ Elapse
    \/ RestState
    \/ \E id \in Ids : WsCommand(id, "mute", Undefined)
    \/ \E id \in Ids : WsStatusUpdate(id, Str(S_playing))

SpecSchedule == Init /\ [][NextSchedule]_vars

\* ----------------------------------------------- video reference inputs

S_ftp == <<"f", "t", "p", ":", "/", "/">>

S_m == <<"m", ".">>

S_vimeocom == <<"v", "i", "m", "e", "o", ".", "c", "o", "m">>

S_watchT == <<"/", "w", "a", "t", "c", "h", "?", "t", "=", "1", "&", "v", "=">>

S_idMixed == <<"a", "_", "b", "-", "C", "1", "d", "2", "E", "3", "f">>

S_idShort == <<"d", "Q", "w", "4", "w", "9", "W", "g", "X", "c">>

S_idLong == <<"d", "Q", "w", "4", "w", "9", "W", "g", "X", "c", "Q", "7">>

S_idBang == <<"d", "Q", "w", "4", "w", "9", "W", "!", "X", "c", "Q">>

S_ampT == <<"&", "t", "=", "1", "0", "s">>

S_questionT == <<"?", "t", "=", "1", "0">>

S_ampNewline == <<"&", "a", "\n", "b">>

\* '&' and as many 'x' as bring 'https://www.youtube.com/watch?v=' plus an id
\* to MaxUrlLength characters exactly ...
S_tailAtLimit ==
    <<"&">> \o [i \in 1..(MaxUrlLength - Len(S_https \o S_www \o S_youtubecom \o S_watch)
                                       - IdLength - 1) |-> "x"]

\* ... and one more.
S_tailOverLimit == S_tailAtLimit \o <<"x">>

UrlSchemes == {<<>>, S_http, S_https, S_ftp}

UrlHosts == {<<>>, S_youtubecom, S_www \o S_youtubecom, S_m \o S_youtubecom,
             S_youtube, S_vimeocom}

UrlPaths == {<<>>, S_watch, S_watchT, S_embed, S_slash}

UrlIds == {S_bareId, S_idMixed, S_idShort, S_idLong, S_idBang}

UrlTails == {<<>>, S_ampT, S_questionT, S_ampNewline, S_tailAtLimit, S_tailOverLimit}

\* Video references put together from a scheme, a host, a path, an id and a
\* tail.
UrlParts == [scheme : UrlSchemes, host : UrlHosts, path : UrlPaths,
             id : UrlIds, tail : UrlTails]

Build(c) == c.scheme \o c.host \o c.path \o c.id \o c.tail

UrlSpace == {Str(Build(c)) : c \in UrlParts} \cup {Str(<<>>), Num(42), Undefined}

\* One play request with any of these references, to any of the four
\* handlers that validate one, with up to MaxSessions sessions connected.
UrlPending == last.kind \in {"init", "connect"}

NextUrl ==
    /\ UrlPending
    /\ \/ Connect
       \/ \E url \in UrlSpace : RestPlay(url)
       \/ \E url \in UrlSpace : RestPlayNow(url)
       \/ \E id \in Ids, command \in {"play", "play-now"}, url \in UrlSpace :
             WsCommand(id, command, url)

SpecUrl == Init /\ [][NextUrl]_vars

\* ================================================================ claims

\* The positions of the records with this id in a session list.
RecordsIn(clients, id) == {i \in 1..Len(clients) : clients[i].id = id}

\* The record with this id (defined when there is one).
RecordIn(clients, id) == clients[CHOOSE i \in RecordsIn(clients, id) : TRUE]

\* The ids of a session list, in its order.
IdsOf(clients) == [i \in 1..Len(clients) |-> clients[i].id]

\* 'Dashboard' is the first nine characters of a string value.
HasDashboardPrefix(v) ==
    /\ v.t = "string"
    /\ Len(v.s) >= Len(S_Dashboard)
    /\ SubSeq(v.s, 1, Len(S_Dashboard)) = S_Dashboard

\* C1: between handlers the session counter equals the length of the session
\* list, which equals the number of sockets connected and not yet
\* disconnected; the external list is as long as the number of those whose
\* type is 'external'; and the debug endpoint reports these numbers.
C1_CountsAgree ==
    /\ connectedClientsCount = Len(connectedClients)
    /\ Len(connectedClients) = Cardinality(sockets)
    /\ Len(getExternalClients) =
          Cardinality({id \in sockets :
                          \E i \in RecordsIn(connectedClients, id) :
                              connectedClients[i].type = "external"})
    /\ last.cmd = "debug/clients" =>
          /\ resp.totalClients = Cardinality(sockets)
          /\ resp.clientCount = Len(getExternalClients)

\* C1 witness: right after a disconnect one session is left, a dashboard, so
\* that the counter is 1 and the external count 0.
C1_Witness ==
    /\ last.kind = "disconnect"
    /\ connectedClientsCount = 1
    /\ Len(connectedClients) = 1
    /\ connectedClients[1].type = "dashboard"
    /\ Len(getExternalClients) = 0

\* C2: the external view never holds a session whose last event was its
\* disconnect, holds every connected session whose type is 'external', and is
\* what the health endpoint returns and the debug endpoint counts.
C2_ExternalView ==
    LET view == getExternalClients
    IN  /\ \A i \in 1..Len(view) : view[i].id \in sockets /\ view[i].id \notin Closed
        /\ \A id \in sockets :
              (\E i \in RecordsIn(connectedClients, id) :
                  connectedClients[i].type = "external")
              => \E j \in 1..Len(view) : view[j].id = id
        /\ last.cmd = "health" => resp.clients = view
        /\ last.cmd = "debug/clients" => resp.clientCount = Len(view)

\* C2 witness: the health endpoint answers with one external session while
\* another session has disconnected.
C2_Witness ==
    /\ last.cmd = "health"
    /\ Closed # {}
    /\ Len(resp.clients) = 1
    /\ resp.clients[1].id \in sockets

\* C3: every connected socket has exactly one record in the session list and
\* every other id has none, so no two records share an id.
C3_ExactlyOnce ==
    \A id \in Ids :
        Cardinality(RecordsIn(connectedClients, id)) = IF id \in sockets THEN 1 ELSE 0

\* C3 witness: one session has disconnected and a later one is still listed.
C3_Witness ==
    /\ last.kind = "disconnect"
    /\ Closed # {}
    /\ sockets # {}
    /\ Len(connectedClients) = 1
    /\ connectedClients[1].id \in sockets

\* C4: the disconnect handling of an id that is not in the registry changes
\* neither the session list, nor the counter, nor the external count, and
\* broadcasts no client list.
C4_LateDisconnectIsNoOp ==
    [][(last'.kind = "disconnect" /\ RecordsIn(connectedClients, last'.id) = {})
         => /\ connectedClients' = connectedClients
            /\ connectedClientsCount' = connectedClientsCount
            /\ Len(ExternalOf(connectedClients')) = Len(getExternalClients)
            /\ emitted' = <<>>]_vars

\* The scenario of C5: whenever session 1 is named 'Dashboard-1' and session 2
\* is registered as external, the external list holds 2 and not 1.
C5Scenario(clients) ==
    (/\ RecordsIn(clients, 1) # {}
     /\ RecordsIn(clients, 2) # {}
     /\ RecordIn(clients, 1).name = Str(S_Dashboard1)
     /\ RecordIn(clients, 2).type = "external")
    => IdsOf(ExternalOf(clients)) = <<2>>

\* C5 as stated: a new session is 'Unknown Device' and external; after an
\* identify with name n from a registered session its name is n and its role
\* is 'dashboard' exactly if n starts with 'Dashboard'; and the scenario.
C5_AsStated ==
    /\ (last.kind = "connect" /\ RecordsIn(connectedClients, last.id) # {}) =>
          /\ RecordIn(connectedClients, last.id).name = Str(S_UnknownDevice)
          /\ RecordIn(connectedClients, last.id).type = "external"
    /\ (last.kind = "identify" /\ RecordsIn(connectedClients, last.id) # {}) =>
          /\ RecordIn(connectedClients, last.id).name = last.arg
          /\ RecordIn(connectedClients, last.id).type = "dashboard"
                <=> HasDashboardPrefix(last.arg)
    /\ C5Scenario(connectedClients)

\* C6: an identify changes the record of its sender alone and neither the
\* membership nor the order of the list; a record's name and role change by
\* nothing but an identify from its own session; an identify for an id that is
\* not registered changes nothing and raises nothing.
C6_IdentifyFrame ==
    [][/\ \A i \in 1..Len(connectedClients), j \in 1..Len(connectedClients') :
            (/\ connectedClients[i].id = connectedClients'[j].id
             /\ \/ connectedClients[i].name # connectedClients'[j].name
                \/ connectedClients[i].type # connectedClients'[j].type)
            => (last'.kind = "identify" /\ last'.id = connectedClients[i].id)
       /\ last'.kind = "identify" =>
            /\ IdsOf(connectedClients') = IdsOf(connectedClients)
            /\ connectedClientsCount' = connectedClientsCount
       /\ (last'.kind = "identify" /\ RecordsIn(connectedClients, last'.id) = {}) =>
            /\ connectedClients' = connectedClients
            /\ emitted' = <<>>
            /\ last'.gate = "ok"
            /\ resp' = NoReply]_vars

\* C6 witness: session 2 has just identified itself while session 1 keeps the
\* dashboard name and role it had.
C6_Witness ==
    /\ last.kind = "identify"
    /\ last.id = 2
    /\ Len(connectedClients) = 2
    /\ connectedClients[1].name = Str(S_Dashboard1)
    /\ connectedClients[1].type = "dashboard"
    /\ connectedClients[2].name = Str(S_Phone)


\* A number from 0 to 100.
InRange(v) == v.t = "number" /\ v.n \in 0..100

\* A volume command that reached its handler: the REST endpoint behind the
\* middleware, or the WebSocket command.
IsVolumeCommand(ev) ==
    \/ ev.kind = "rest" /\ ev.cmd = "volume" /\ ev.gate = "ok"
    \/ ev.kind = "command" /\ ev.cmd = "volume"

\* The positions of the events with this name among emitted events.
EventsNamed(events, ev) == {i \in 1..Len(events) : events[i].ev = ev}

\* C7: a volume command is accepted (its 'control-volume' event is broadcast,
\* the state takes the value, REST answers 200) exactly if its value is a
\* number from 0 to 100; a rejected one leaves dashboardState as it was,
\* broadcasts no 'control-volume', and REST answers 400.
C7_VolumeValidation ==
    [][IsVolumeCommand(last') =>
          /\ EventsNamed(emitted', "control-volume") # {} <=> InRange(last'.arg)
          /\ last'.kind = "rest" =>
                resp'.status = IF InRange(last'.arg) THEN 200 ELSE 400
          /\ InRange(last'.arg) => dashboardState'.volume = last'.arg
          /\ ~InRange(last'.arg) => dashboardState' = dashboardState]_vars

\* C7 witness: POST /api/volume with level 101 is answered 400 and the volume
\* set earlier stays 40.
C7_Witness ==
    /\ last = Event("rest", 0, "volume", Num(101), "ok")
    /\ resp.status = 400
    /\ dashboardState.volume = Num(40)
    /\ EventsNamed(emitted, "control-volume") = {}

\* C8: after an accepted volume command with level v the state's volume is v
\* and exactly one 'control-volume' event was sent, with level v, to every
\* registered session whatever its role.
C8_VolumeBroadcast ==
    (IsVolumeCommand(last) /\ InRange(last.arg)) =>
        /\ dashboardState.volume = last.arg
        /\ Cardinality(EventsNamed(emitted, "control-volume")) = 1
        /\ \A i \in EventsNamed(emitted, "control-volume") :
              /\ emitted[i].val = last.arg
              /\ emitted[i].to = {connectedClients[k].id : k \in 1..Len(connectedClients)}
        /\ last.kind = "rest" => resp.status = 200

\* C8 witness: the scenario: POST /api/volume with level 40 while a dashboard
\* and an external session are registered; both are sent level 40.
C8_Witness ==
    /\ last = Event("rest", 0, "volume", Num(40), "ok")
    /\ resp.status = 200
    /\ Len(connectedClients) = 2
    /\ connectedClients[1].type = "dashboard"
    /\ connectedClients[2].type = "external"
    /\ \E i \in 1..Len(emitted) :
          emitted[i] = Emit({1, 2}, "control-volume", Num(40), <<>>)

\* C9: the state's volume is always a number from 0 to 100 and its playback
\* status always one of 'playing', 'paused', 'stopped'.
C9_StateInRange ==
    /\ dashboardState.volume.t = "number"
    /\ dashboardState.volume.n >= 0
    /\ dashboardState.volume.n <= 100
    /\ dashboardState.playbackStatus \in {Str(S_playing), Str(S_paused), Str(S_stopped)}

\* C9 witness: an out-of-range volume_update has just been handled after the
\* state was moved off its defaults.
C9_Witness ==
    /\ last.kind = "volume_update"
    /\ last.arg = Num(101)
    /\ dashboardState.volume = Num(0)
    /\ dashboardState.playbackStatus = Str(S_playing)

\* Ids of exactly IdLength characters of the class [a-zA-Z0-9_-].
GoodIds == {S_bareId, S_idMixed}

\* Tails that add further '&' parameters.
AmpTails == {S_ampT, S_tailAtLimit, S_tailOverLimit}

HttpSchemes == {S_http, S_https}

YoutubeHosts == {S_youtubecom, S_www \o S_youtubecom}

\* The forms C10 names: a watch URL whose v parameter is a good id, a youtu.be
\* short link, an embed path, a bare id.
StatedForm(c) ==
    /\ c.id \in GoodIds
    /\ \/ /\ c.scheme \in HttpSchemes
          /\ c.host \in YoutubeHosts
          /\ c.path \in {S_watch, S_watchT}
          /\ c.tail \in {<<>>} \cup AmpTails
       \/ /\ c.scheme \in HttpSchemes
          /\ c.host = S_youtube
          /\ c.path = S_slash
          /\ c.tail = <<>>
       \/ /\ c.scheme \in HttpSchemes
          /\ c.host \in YoutubeHosts
          /\ c.path = S_embed
          /\ c.tail = <<>>
       \/ /\ c.scheme = <<>>
          /\ c.host = <<>>
          /\ c.path = <<>>
          /\ c.tail = <<>>

\* The forms the amended C10 names: as above, with v the first parameter of a
\* watch URL, further parameters free of line breaks, and at most
\* MaxUrlLength characters in all.
AmendedForm(c) ==
    /\ StatedForm(c)
    /\ c.path # S_watchT
    /\ \A i \in 1..Len(c.tail) : c.tail[i] \notin {"\n", "\r"}
    /\ Len(Build(c)) <= MaxUrlLength

StatedStrings == {Build(c) : c \in {d \in UrlParts : StatedForm(d)}}

AmendedStrings == {Build(c) : c \in {d \in UrlParts : AmendedForm(d)}}

\* A play or play-now request that reached its handler.
IsPlayRequest(ev) ==
    /\ ev.cmd \in {"play", "play-now"}
    /\ \/ ev.kind = "rest" /\ ev.gate = "ok"
       \/ ev.kind = "command"

PlayEventOf(cmd) == IF cmd = "play" THEN "play-video" ELSE "play-video-now"

\* The request was accepted: its event, carrying the reference, went once to
\* every connected socket, and REST answered 200.
PlayAccepted ==
    /\ Cardinality(EventsNamed(emitted, PlayEventOf(last.cmd))) = 1
    /\ \A i \in EventsNamed(emitted, PlayEventOf(last.cmd)) :
          emitted[i].val = last.arg /\ emitted[i].to = sockets
    /\ last.kind = "rest" => resp.status = 200

\* The request was rejected: no play event was broadcast, and REST answered
\* with an error.
PlayRejected ==
    /\ EventsNamed(emitted, "play-video") = {}
    /\ EventsNamed(emitted, "play-video-now") = {}
    /\ last.kind = "rest" => resp.status \in {400, 500}

\* C10 as stated: a play or play-now request is accepted exactly if its
\* reference is a string of one of the four forms, and rejected otherwise.
C10_AsStated ==
    IsPlayRequest(last) =>
        IF last.arg.t = "string" /\ last.arg.s \in StatedStrings
        THEN PlayAccepted
        ELSE PlayRejected

\* C10 amended: a play or play-now request is accepted exactly if its
\* reference is a string of at most 500 characters of one of the forms: a watch
\* URL whose query starts with v= and an id, then ends or goes on with '&' and
\* characters other than line breaks; a youtu.be short link; an embed path; a
\* bare id.  Every other request is rejected and nothing is broadcast.
C10_PlayValidation ==
    IsPlayRequest(last) =>
        IF last.arg.t = "string" /\ last.arg.s \in AmendedStrings
        THEN PlayAccepted
        ELSE PlayRejected

\* C10 witness: a watch URL of exactly 500 characters has been accepted by
\* POST /api/play-now and sent to two sessions.
C10_Witness ==
    /\ last.kind = "rest"
    /\ last.cmd = "play-now"
    /\ last.arg = Str(S_https \o S_www \o S_youtubecom \o S_watch \o S_idMixed
                      \o S_tailAtLimit)
    /\ Len(last.arg.s) = MaxUrlLength
    /\ resp.status = 200
    /\ sockets = {1, 2}
    /\ EventsNamed(emitted, "play-video-now") # {}

\* The handlers that call updateApiActivity: requireApiKey once the key is
\* accepted, and the WebSocket command handler.
CallsUpdateApiActivity(ev) ==
    \/ ev.kind = "rest" /\ ev.gate \in {"ok", "play-limited"}
    \/ ev.kind = "command"

\* The 'api-client-status' events with this flag among the events.
StatusEvents(events, active) ==
    {i \in 1..Len(events) :
        events[i].ev = "api-client-status" /\ events[i].val = Bool(active)}

\* C11: every call of updateApiActivity sets lastApiActivity to the current
\* time and leaves the flag true; made while the flag is true it broadcasts no
\* 'api-client-status', made while it is false it broadcasts exactly one
\* {active: true}, to every socket.
C11_ActivityOncePerTransition ==
    [][CallsUpdateApiActivity(last') =>
         /\ lastApiActivity' = now'
         /\ apiClientActive'
         /\ StatusEvents(emitted', FALSE) = {}
         /\ Cardinality(StatusEvents(emitted', TRUE)) =
               (IF apiClientActive THEN 0 ELSE 1)
         /\ \A i \in StatusEvents(emitted', TRUE) : emitted'[i].to = sockets']_vars

\* C11 witness: an authenticated request made three intervals after the start,
\* while the flag is true: the time is recorded, nothing is broadcast about
\* the flag.
C11_Witness ==
    /\ last = Event("rest", 0, "state", Undefined, "ok")
    /\ apiClientActive
    /\ now = StartTime + 3 * SweepInterval
    /\ lastApiActivity = now
    /\ sockets # {}
    /\ StatusEvents(emitted, TRUE) = {}

\* The timeout has passed since the last activity and the flag is still true.
TimedOut == apiClientActive /\ lastApiActivity > 0 /\ now - lastApiActivity > API_TIMEOUT

\* C12: a sweep that finds the flag true and the last activity more than the
\* timeout ago clears the flag and broadcasts exactly one {active: false};
\* any other sweep broadcasts nothing and leaves the flag; and no handler but
\* the sweep clears the flag or broadcasts {active: false}.  So one timeout
\* gives one broadcast however many sweeps follow, until a new activity sets
\* the flag again.
C12_OneInactiveBroadcast ==
    [][/\ last'.kind = "sweep" =>
            IF TimedOut
            THEN /\ ~apiClientActive'
                 /\ Cardinality(StatusEvents(emitted', FALSE)) = 1
                 /\ \A i \in StatusEvents(emitted', FALSE) : emitted'[i].to = sockets
            ELSE /\ apiClientActive' = apiClientActive
                 /\ emitted' = <<>>
       /\ last'.kind \notin {"sweep", "connect"} =>
            /\ StatusEvents(emitted', FALSE) = {}
            /\ apiClientActive => apiClientActive'
       /\ last'.kind = "connect" =>
            /\ apiClientActive' = apiClientActive
            /\ \A i \in StatusEvents(emitted', FALSE) : emitted'[i].to = {last'.id}]_vars

\* C12 witness: a sweep two intervals after the timeout finds the flag already
\* cleared and broadcasts nothing.
C12_Witness ==
    /\ last.kind = "sweep"
    /\ ~apiClientActive
    /\ lastApiActivity > 0
    /\ now - lastApiActivity > API_TIMEOUT + SweepInterval
    /\ sockets # {}
    /\ emitted = <<>>

\* ------------------------------------------------ claims on the key store

\* The events that make the dashboards do something.
ControlEventNames ==
    {"control-fullscreen", "control-mute", "control-next", "control-play-pause",
     "control-previous", "control-seek-back", "control-seek-forward",
     "control-stop", "control-theater", "control-volume",
     "play-video", "play-video-now"}

ControlEvents(events) == {i \in 1..Len(events) : events[i].ev \in ControlEventNames}

\* The endpoints behind requireApiKey that the key specifications call.
ProtectedEndpoints == {"admin-create", "admin-delete", "volume", "state"}

\* This step is a request to a protected endpoint whose X-API-Key header is
\* missing or is outside the set of keys valid when the request arrives.
Unkeyed ==
    /\ last'.kind = "rest"
    /\ last'.cmd \in ProtectedEndpoints
    /\ \/ ~Truthy(apiKeyHeader')
       \/ ~Includes(getAllApiKeys(TRUE), apiKeyHeader'.s)

\* No command effect: no control or play event, and the state, the activity
\* flag, the activity time and the key file as they were.
NoCommandEffect ==
    /\ ControlEvents(emitted') = {}
    /\ dashboardState' = dashboardState
    /\ apiClientActive' = apiClientActive
    /\ lastApiActivity' = lastApiActivity
    /\ apiKeysFile' = apiKeysFile

\* C13 as stated: a request to a protected endpoint with a missing or invalid
\* key is answered 401 and has no command effect.
C13_AsStated ==
    [][Unkeyed => (resp'.status = 401 /\ NoCommandEffect)]_vars

\* C13: a request to a protected endpoint with a missing or invalid key has no
\* command effect; it is answered 401, with one failed 'auth-attempt' event
\* and nothing else, unless the rate limiter in front of the key check stops
\* it, and then it is answered 429 with no event at all.
C13_UnkeyedHasNoEffect ==
    [][Unkeyed =>
          /\ NoCommandEffect
          /\ resp'.status \in {401, 429}
          /\ resp'.status = 429 <=> last'.gate = "api-limited"
          /\ resp'.status = 401 => emitted' = << AuthAttempt(FALSE) >>
          /\ resp'.status = 429 => emitted' = <<>>]_vars

\* C13 witness: the key made by the first create request, presented to the
\* delete endpoint after its record was deleted: 401, and the controller that
\* was active stays recorded as it was.
C13_Witness ==
    /\ last.kind = "rest" /\ last.cmd = "admin-delete" /\ last.gate = "invalid"
    /\ apiKeyHeader = Str(generateApiKey(1))
    /\ nextKey > 1
    /\ ~Includes(getAllApiKeys(TRUE), generateApiKey(1))
    /\ resp.status = 401
    /\ apiClientActive

\* The tokens the records of the key specifications can hold.
Tokens ==
    {generateApiKey(n) : n \in 1..MaxKeys} \cup {S_envKey, ToLowerCase(S_userKey)}

CountOf(keys, key) == Cardinality({i \in 1..Len(keys) : keys[i] = key})

\* This step is a create request that succeeded; the record it made is the
\* last of the file.
Created ==
    /\ last'.kind = "rest"
    /\ last'.cmd \in {"admin-create", "setup"}
    /\ resp'.status = 200

NewRecord == apiKeysFile'.keys[Len(apiKeysFile'.keys)]

\* This step is a delete request that succeeded; the record it removed is the
\* one the file held under the id of the request.
Deleted ==
    /\ last'.kind = "rest"
    /\ last'.cmd \in {"admin-delete", "delete"}
    /\ resp'.status = 200

OldRecord == apiKeysFile.keys[FindIndex(apiKeysFile.keys, last'.arg.id)]

\* Every key check uses the keys of the environment and the file as they are
\* when the request arrives: a request the rate limiter lets through passes
\* the check exactly if its key is among them.
RecomputedAtEveryCheck ==
    (/\ last'.kind = "rest"
     /\ last'.cmd \in ProtectedEndpoints
     /\ last'.gate # "api-limited")
        => (last'.gate \in {"ok", "play-limited"}
               <=> (Truthy(apiKeyHeader') /\ Includes(getAllApiKeys(TRUE), apiKeyHeader'.s)))

\* After a create the set holds the new token exactly once, and a request
\* with it would pass the check.
CreatedKeyIsValid ==
    Created => \A key \in Tokens :
        key = NewRecord.key =>
            /\ CountOf(getAllApiKeys(TRUE)', key) = 1
            /\ requireApiKey(Str(key))' = "ok"

\* C14 as stated: the valid set is recomputed at every check; after a create
\* it holds the new token exactly once and a request with it is accepted;
\* after a delete it no longer holds the record's token and a request with
\* it is rejected.
C14_AsStated ==
    [][/\ RecomputedAtEveryCheck
       /\ CreatedKeyIsValid
       /\ Deleted => \A key \in Tokens :
             key = OldRecord.key =>
                 /\ ~Includes(getAllApiKeys(TRUE)', key)
                 /\ requireApiKey(Str(key))' = "invalid"]_vars

\* The token is still held after the delete: by another record of the file
\* or by the environment.
HeldElsewhere(key) ==
    \/ \E i \in 1..Len(apiKeysFile'.keys) : apiKeysFile'.keys[i].key = key
    \/ Includes(EnvKeys, key)

\* C14: the valid set is recomputed at every check; after a create it holds
\* the new token exactly once and a request with it is accepted; after a
\* delete it no longer holds the record's token, and a request with it is
\* rejected, unless another record of the file or the environment holds the
\* same token, and then the token stays valid.
C14_SetFollowsFile ==
    [][/\ RecomputedAtEveryCheck
       /\ CreatedKeyIsValid
       /\ Deleted => \A key \in Tokens :
             key = OldRecord.key =>
                 /\ Includes(getAllApiKeys(TRUE)', key) <=> HeldElsewhere(key)
                 /\ requireApiKey(Str(key))' =
                       IF HeldElsewhere(key) THEN "ok" ELSE "invalid"]_vars

\* C14 witness: a delete request authenticated with the key of the first
\* create request removes that key's own record; the key is valid no more.
C14_Witness ==
    /\ last.kind = "rest" /\ last.cmd = "admin-delete" /\ last.gate = "ok"
    /\ resp.status = 200
    /\ apiKeyHeader = Str(generateApiKey(1))
    /\ last.arg.id = RandomId(1)
    /\ requireApiKey(apiKeyHeader) = "invalid"

\* C14 witness of the exception: the environment's key was also stored in the
\* file by the setup endpoint; its record is deleted and the key stays valid.
C14_StillHeld ==
    /\ last.kind = "rest" /\ last.cmd = "admin-delete"
    /\ resp.status = 200
    /\ apiKeysFile.keys = <<>>
    /\ nextKey = 2
    /\ requireApiKey(Str(S_envKey)) = "ok"

\* The response is the one to the create request that made the last record
\* of the file.
IsCreateResponse(j) ==
    /\ last.kind = "rest" /\ last.cmd = "admin-create"
    /\ resp.status = 200
    /\ j = Len(apiKeysFile.keys)

\* C15: the raw token of a persisted record is in no response but the one to
\* the create request that made the record.
C15_TokenDisclosedOnce ==
    \A i \in 1..Len(resp.keys) : \A j \in 1..Len(apiKeysFile.keys) :
        resp.keys[i].key = apiKeysFile.keys[j].key => IsCreateResponse(j)

\* The messages a WebSocket session sends.  The 'message' handler reads no key
\* from them and the connection presents none.
WsMessageKinds ==
    {"identify", "get_controls", "command", "volume_update", "status_update",
     "title_update"}

\* C16: WebSocket connections are viewing only: a message of a WebSocket
\* session, which has presented no key, makes no control or play event go
\* out and leaves dashboardState as it was.
C16_WebSocketViewingOnly ==
    [][last'.kind \in WsMessageKinds =>
          /\ ControlEvents(emitted') = {}
          /\ dashboardState' = dashboardState]_vars

\* This step is a delete request that reached its handler.
IsDelete ==
    /\ last'.kind = "rest"
    /\ last'.cmd \in {"admin-delete", "delete"}
    /\ last'.gate \in {"ok", "open"}

\* The places of the file's records that have this id.
PlacesOf(id) == {i \in 1..Len(apiKeysFile.keys) : apiKeysFile.keys[i].id = id}

\* The file after the step is the file before it without the record at k.
RemovedAt(k) ==
    /\ apiKeysFile'.parsable
    /\ Len(apiKeysFile'.keys) = Len(apiKeysFile.keys) - 1
    /\ \A i \in 1..Len(apiKeysFile'.keys) :
          apiKeysFile'.keys[i] = apiKeysFile.keys[IF i < k THEN i ELSE i + 1]

\* C17: a delete of an id removes exactly the record with that id and is
\* answered 200; when no record has the id it is answered 404 and the file
\* stays as it was; the keys of the environment stay valid whatever is
\* deleted, and their listing ids ('env-0') are ids of no record.
C17_DeleteExactlyOne ==
    [][IsDelete =>
          /\ PlacesOf(last'.arg.id) # {} =>
                /\ resp'.status = 200
                /\ \E k \in PlacesOf(last'.arg.id) : RemovedAt(k)
          /\ PlacesOf(last'.arg.id) = {} =>
                /\ resp'.status = 404
                /\ apiKeysFile' = apiKeysFile
          /\ last'.arg.id = S_envId => resp'.status = 404
          /\ \A i \in 1..Len(EnvKeys) : Includes(getAllApiKeys(TRUE)', EnvKeys[i])]_vars

\* C17 witness: of two records the second is deleted; the first is what the
\* file holds afterwards.
C17_Witness ==
    /\ last.kind = "rest" /\ last.cmd \in {"admin-delete", "delete"}
    /\ last.arg.id = RandomId(2)
    /\ resp.status = 200
    /\ Len(apiKeysFile.keys) = 1
    /\ apiKeysFile.keys[1].id = RandomId(1)

\* This step is a rename request that reached its handler.
IsRename ==
    /\ last'.kind = "rest"
    /\ last'.cmd = "rename"
    /\ last'.gate = "open"

\* The name of the request is a string with something in it besides white
\* space.
NameGiven(name) == name.t = "string" /\ \E i \in 1..Len(name.s) : name.s[i] \notin Whitespace

\* The name without the white space around it: from its first to its last
\* character that is no white space.
Trimmed(cs, out) ==
    \E a, b \in 1..Len(cs) :
        /\ out = SubSeq(cs, a, b)
        /\ cs[a] \notin Whitespace /\ cs[b] \notin Whitespace
        /\ \A i \in 1..Len(cs) : (i < a \/ i > b) => cs[i] \in Whitespace

\* The file after the step differs from the file before it in the name of the
\* record at k and in nothing else.
RenamedAt(k, name) ==
    /\ apiKeysFile'.parsable
    /\ Len(apiKeysFile'.keys) = Len(apiKeysFile.keys)
    /\ \A i \in 1..Len(apiKeysFile.keys) :
          i # k => apiKeysFile'.keys[i] = apiKeysFile.keys[i]
    /\ apiKeysFile'.keys[k].id = apiKeysFile.keys[k].id
    /\ apiKeysFile'.keys[k].key = apiKeysFile.keys[k].key
    /\ apiKeysFile'.keys[k].createdAt = apiKeysFile.keys[k].createdAt
    /\ Trimmed(name.s, apiKeysFile'.keys[k].name)

\* C18: a rename changes the name of the record with the id, to the trimmed
\* name of the request, and nothing else: its id, key and createdAt and the
\* other records stay.  A rename that fails (no record has the id: 404; the
\* name is missing or empty after trimming: 400) leaves the file as it was.
C18_RenameFrame ==
    [][IsRename =>
          /\ resp'.status = 200 <=>
                (NameGiven(last'.arg.name) /\ PlacesOf(last'.arg.id) # {})
          /\ resp'.status = 200 =>
                \E k \in PlacesOf(last'.arg.id) : RenamedAt(k, last'.arg.name)
          /\ resp'.status # 200 => apiKeysFile' = apiKeysFile
          /\ (NameGiven(last'.arg.name) /\ PlacesOf(last'.arg.id) = {}) =>
                resp'.status = 404
          /\ (~Truthy(last'.arg.name) \/
              (last'.arg.name.t = "string" /\ ~NameGiven(last'.arg.name))) =>
                resp'.status = 400]_vars

\* C18 witness: the second of two records is renamed to ' TV ': its name is
\* 'TV', its key is the one it was created with, the first record has its
\* name.
C18_Witness ==
    /\ last.kind = "rest" /\ last.cmd = "rename"
    /\ last.arg.id = RandomId(2)
    /\ last.arg.name = Str(S_paddedTV)
    /\ resp.status = 200
    /\ Len(apiKeysFile.keys) = 2
    /\ apiKeysFile.keys[2].name = <<"T", "V">>
    /\ apiKeysFile.keys[2].key = generateApiKey(2)
    /\ apiKeysFile.keys[1].name = S_Phone

\* The endpoints that write the file.
WritingEndpoints == {"admin-create", "setup", "admin-delete", "delete", "rename"}

\* This step is a request to such an endpoint, with a well-formed body, that
\* was answered 500: saveApiKeys returned false.
WriteFailed ==
    /\ last'.kind = "rest"
    /\ last'.cmd \in WritingEndpoints
    /\ last'.gate \in {"ok", "open"}
    /\ last'.arg.name.t \in {"string", "undefined"}
    /\ resp'.status = 500

\* C19: when writing the key file fails in a create, delete or rename, the
\* request is answered 500, the file holds what it held before, and the keys
\* that were valid before are the keys valid afterwards.
C19_FailedWriteKeepsFile ==
    [][WriteFailed =>
          /\ apiKeysFile' = apiKeysFile
          /\ getAllApiKeys(TRUE)' = getAllApiKeys(TRUE)]_vars

\* This step is a create, delete or rename request that reached its handler.
IsStoreRequest ==
    /\ last'.kind = "rest"
    /\ last'.cmd \in WritingEndpoints
    /\ last'.gate \in {"ok", "open"}

\* C20: a create, delete or rename keeps every record the file held that is
\* not the target of the request, as it was; also when reading the file
\* before the write fails.
C20_OtherRecordsPreserved ==
    [][IsStoreRequest =>
          \A i \in 1..Len(apiKeysFile.keys) :
              apiKeysFile.keys[i].id # last'.arg.id =>
                  \E j \in 1..Len(apiKeysFile'.keys) :
                      apiKeysFile'.keys[j] = apiKeysFile.keys[i]]_vars

\* ------------------------------------- claims on reports and commands

\* The events that tell the sessions what a dashboard reported.
StateEventNames == {"state-volume-changed", "state-playback-changed", "state-title-changed"}

StateEvents(events) == {i \in 1..Len(events) : events[i].ev \in StateEventNames}

ReportKinds == {"volume_update", "status_update", "title_update"}

\* The field a report is about and the event that passes it on.
FieldOf(kind) ==
    CASE kind = "volume_update" -> "volume"
      [] kind = "status_update" -> "playbackStatus"
      [] kind = "title_update" -> "currentVideoTitle"

StateEventOf(kind) ==
    CASE kind = "volume_update" -> "state-volume-changed"
      [] kind = "status_update" -> "state-playback-changed"
      [] kind = "title_update" -> "state-title-changed"

\* A report that is to be accepted: a number from 0 to 100, one of the three
\* statuses, a string.
ValidReport(ev) ==
    CASE ev.kind = "volume_update" -> InRange(ev.arg)
      [] ev.kind = "status_update" ->
            ev.arg.t = "string" /\ ev.arg.s \in {S_playing, S_paused, S_stopped}
      [] ev.kind = "title_update" -> ev.arg.t = "string"

\* The state after the step is the state before it with this field set.
FieldWritten(field, value) ==
    /\ dashboardState'[field] = value
    /\ \A f \in DOMAIN dashboardState : f # field => dashboardState'[f] = dashboardState[f]

\* C21: a valid state report is written to dashboardState and sent on to all
\* sessions as its state event, and as nothing else; an invalid one changes
\* nothing and sends nothing.  No report makes a control or play event go
\* out, and no command makes a state event go out.
C21_ReportsAndCommandsApart ==
    [][/\ (last'.kind \in ReportKinds /\ ValidReport(last')) =>
             /\ FieldWritten(FieldOf(last'.kind), last'.arg)
             /\ emitted' = << Emit(sockets, StateEventOf(last'.kind), last'.arg, <<>>) >>
       /\ (last'.kind \in ReportKinds /\ ~ValidReport(last')) =>
             /\ dashboardState' = dashboardState
             /\ emitted' = <<>>
       /\ last'.kind \in ReportKinds => ControlEvents(emitted') = {}
       /\ last'.kind \in {"command", "rest"} => StateEvents(emitted') = {}]_vars

\* C21 witness: a volume report of 40 while two sessions are registered: the
\* state holds 40 and 'state-volume-changed' went to both.
C21_Witness ==
    /\ last.kind = "volume_update" /\ last.arg = Num(40)
    /\ dashboardState.volume = Num(40)
    /\ Cardinality(sockets) = 2
    /\ emitted = << Emit(sockets, "state-volume-changed", Num(40), <<>>) >>

\* The session that sent the message of this step is registered as a
\* dashboard.
SentByDashboard ==
    /\ RecordsIn(connectedClients, last'.id) # {}
    /\ RecordIn(connectedClients, last'.id).type = "dashboard"

\* C22: dashboardState changes only in a volume command with a valid level
\* and in a valid state report sent by a dashboard session; a report sent by
\* an external session leaves it as it was.
C22_OnlyDashboardsReport ==
    [][dashboardState' # dashboardState =>
          \/ IsVolumeCommand(last') /\ InRange(last'.arg)
          \/ /\ last'.kind \in ReportKinds
             /\ ValidReport(last')
             /\ SentByDashboard]_vars

\* The cases of the command switch.
KnownCommands ==
    {"play-now", "play", "play-pause", "pause", "resume", "stop", "fullscreen",
     "exitfullscreen", "volume", "next", "previous", "mute", "seek-back",
     "seek-forward", "theater"}

\* C23: a command message with an unknown command makes no control or play
\* event go out, leaves dashboardState and the registry as they were and
\* sends the sender nothing; the sender stays registered, so its later
\* messages are handled.
C23_UnknownCommandIgnored ==
    [][(last'.kind = "command" /\ last'.cmd \notin KnownCommands) =>
          /\ ControlEvents(emitted') = {}
          /\ \A i \in 1..Len(emitted') : emitted'[i].ev = "api-client-status"
          /\ resp' = NoReply
          /\ dashboardState' = dashboardState
          /\ UNCHANGED registryVars
          /\ last'.id \in sockets']_vars

\* C23 witness: the command 'reboot' from a registered session, after which
\* nothing went out and the state has the volume set before.
C23_Witness ==
    /\ last.kind = "command" /\ last.cmd = "reboot"
    /\ last.id \in sockets
    /\ emitted = <<>>
    /\ dashboardState.volume = Num(0)

\* This step is a seek request with an empty body that reached its handler.
IsSeek ==
    /\ last'.kind = "rest"
    /\ last'.cmd \in {"seek-backward", "seek-forward"}
    /\ last'.gate = "ok"
    /\ last'.arg = Undefined

\* C24: a seek request is answered 503, and nothing is broadcast, exactly
\* when no session is registered; when a session is registered the seek
\* event goes to all registered sessions and the answer is 200.
C24_SeekUnavailable ==
    [][IsSeek =>
          /\ resp'.status = 503 <=> connectedClients = <<>>
          /\ resp'.status = 503 => ControlEvents(emitted') = {}
          /\ connectedClients # <<>> =>
                /\ resp'.status = 200
                /\ \E i \in 1..Len(emitted') :
                      /\ emitted'[i].ev \in {"control-seek-back", "control-seek-forward"}
                      /\ emitted'[i].to = {connectedClients[k].id :
                                              k \in 1..Len(connectedClients)}]_vars

\* This step is an accepted write to this field of dashboardState.
AcceptedWrite(field) ==
    \/ field = "volume" /\ IsVolumeCommand(last') /\ InRange(last'.arg)
    \/ /\ last'.kind \in ReportKinds
       /\ FieldOf(last'.kind) = field
       /\ ValidReport(last')

\* This step is a state request that reached its handler.
IsStateRead == last'.kind = "rest" /\ last'.cmd = "state" /\ last'.gate = "ok"

\* C25: the state starts as 100 / 'stopped' / 'No video loaded'; every
\* accepted write to a field sets the field to the written value and no
\* other step changes it, so a field holds the value of its last accepted
\* write; a state request returns the fields as they are and changes none.
C25_LastWriteWins ==
    [][/\ last.kind = "init" =>
             /\ dashboardState.volume = Num(100)
             /\ dashboardState.playbackStatus = Str(S_stopped)
             /\ dashboardState.currentVideoTitle = Str(S_NoVideoLoaded)
       /\ \A field \in DOMAIN dashboardState :
             dashboardState'[field] =
                 IF AcceptedWrite(field) THEN last'.arg ELSE dashboardState[field]
       /\ IsStateRead =>
             /\ resp'.status = 200
             /\ resp'.state = dashboardState
             /\ dashboardState' = dashboardState]_vars

\* C25 witness: a state request after a volume command of 0 and a status
\* report were the last writes to their fields: the snapshot has volume 0,
\* 'playing' and the title that was never written.
C25_Witness ==
    /\ last.kind = "rest" /\ last.cmd = "state"
    /\ resp.state.volume = Num(0)
    /\ resp.state.playbackStatus = Str(S_playing)
    /\ resp.state.currentVideoTitle = Str(S_NoVideoLoaded)

\* C26: a health request is answered 200 with the number of external
\* sessions as its connectedClients field, a number and no list of records,
\* and changes nothing: not the registry, not dashboardState, not the
\* activity flag, and nothing is broadcast.
C26_HealthCountsExternals ==
    [][(last'.kind = "rest" /\ last'.cmd = "health") =>
          /\ resp'.status = 200
          /\ resp'.clientCount = Len(ExternalOf(connectedClients))
          /\ resp'.clients = <<>>
          /\ emitted' = <<>>
          /\ UNCHANGED <<registryVars, dashboardState, activityVars>>]_vars

\* The sessions registered when the handler of this step emits.
RegisteredThen == {connectedClients'[k].id : k \in 1..Len(connectedClients')}

\* What a handler sends to the one socket it serves: the activity flag on
\* connection, the answer to get_controls.
SentToOne(e) ==
    /\ e.to = {last'.id}
    /\ \/ last'.kind = "connect" /\ e.ev = "api-client-status"
       \/ last'.kind = "get_controls" /\ e.ev = "message"

EventOfCommand(cmd) ==
    CASE cmd = "play" -> "play-video"
      [] cmd = "play-now" -> "play-video-now"
      [] cmd = "volume" -> "control-volume"
      [] cmd \in {"play-pause", "pause", "resume"} -> "control-play-pause"
      [] cmd \in {"fullscreen", "exitfullscreen"} -> "control-fullscreen"
      [] cmd = "stop" -> "control-stop"
      [] cmd = "next" -> "control-next"
      [] cmd = "previous" -> "control-previous"
      [] cmd = "mute" -> "control-mute"
      [] cmd = "theater" -> "control-theater"
      [] cmd \in {"seek-back", "seek-backward"} -> "control-seek-back"
      [] cmd = "seek-forward" -> "control-seek-forward"
      [] OTHER -> ""

\* This step is a command that was accepted: a REST command answered 200, a
\* WebSocket command that is known and has a valid payload.
AcceptedCommand(ev, status) ==
    /\ EventOfCommand(ev.cmd) # ""
    /\ \/ ev.kind = "rest" /\ ev.gate = "ok" /\ status = 200
       \/ /\ ev.kind = "command"
          /\ ev.cmd \in {"play", "play-now"} => (Truthy(ev.arg) /\ isValidYouTubeUrl(ev.arg))
          /\ ev.cmd = "volume" => InRange(ev.arg)

\* C28: events go out in the order in which the commands are handled: the
\* handler of an accepted command emits the command's event, once, to every
\* registered session, before the next handler runs, and no other step
\* emits a command event; so of two accepted commands the event of the one
\* handled first is emitted first and sent first to every session.
C28_EventsInArrivalOrder ==
    [][/\ AcceptedCommand(last', resp'.status) =>
             /\ Cardinality(ControlEvents(emitted')) = 1
             /\ \A i \in ControlEvents(emitted') :
                   /\ emitted'[i].ev = EventOfCommand(last'.cmd)
                   /\ emitted'[i].val = last'.arg
                   /\ emitted'[i].to = sockets'
       /\ ~AcceptedCommand(last', resp'.status) => ControlEvents(emitted') = {}
       /\ (AcceptedCommand(last, resp.status) /\ AcceptedCommand(last', resp'.status)) =>
             /\ \E i \in ControlEvents(emitted) : emitted[i].ev = EventOfCommand(last.cmd)
             /\ \A i \in ControlEvents(emitted') : emitted'[i].ev = EventOfCommand(last'.cmd)]_vars

\* C28 witness: the REST command 'next' handled right after an accepted
\* command that made the controller active, with two sessions registered:
\* its event is the one command event of the step.
C28_Witness ==
    /\ last.kind = "rest" /\ last.cmd = "next"
    /\ resp.status = 200
    /\ Cardinality(sockets) = 2
    /\ Cardinality(ControlEvents(emitted)) = 1
    /\ EventsNamed(emitted, "api-client-status") = {}

\* This step is a request to a protected endpoint that the rate limiter let
\* through and whose X-API-Key is a non-empty string outside the set of keys
\* valid when it arrives.
InvalidKeyRequest ==
    /\ last'.kind = "rest"
    /\ last'.cmd \in ProtectedEndpoints
    /\ last'.gate # "api-limited"
    /\ Truthy(apiKeyHeader')
    /\ ~Includes(getAllApiKeys(TRUE), apiKeyHeader'.s)

\* The one response to an invalid key.
InvalidKeyResponse == [ErrorReply(401) EXCEPT !.error = "Invalid API key"]

\* C29: the response to a non-empty key outside the valid set is one and the
\* same, status and body, whatever the key and whatever the valid set holds;
\* so the responses to any two such requests are identical.
C29_InvalidKeysAnsweredAlike ==
    [][InvalidKeyRequest =>
          /\ resp' = InvalidKeyResponse
          /\ emitted' = << AuthAttempt(FALSE) >>]_vars

\* C29 witness: a string that has not the format of a key is answered as
\* invalid while the file holds a key.
C29_Witness ==
    /\ last.kind = "rest" /\ last.gate = "invalid"
    /\ apiKeyHeader = Str(S_notAUrl)
    /\ Len(apiKeysFile.keys) = 1
    /\ resp = InvalidKeyResponse

\* This step is a command of one of these names that reached its handler, on
\* either surface.
IsCommandNamed(names) ==
    /\ last'.cmd \in names
    /\ \/ last'.kind = "rest" /\ last'.gate = "ok"
       \/ last'.kind = "command"

\* What the step emitted besides the events of the key check and of the
\* activity flag.
CommandEventsOf(events) ==
    LET IsCommandEvent(e) == e.ev \notin {"auth-attempt", "api-client-status"}
    IN  SelectSeq(events, IsCommandEvent)

EnvTokens == {S_envKey, S_devkey}

\* The key fields of the records in the file.
FileTokens == {apiKeysFile.keys[i].key : i \in 1..Len(apiKeysFile.keys)}

\* The valid keys as a set.
ValidKeys == {getAllApiKeys(TRUE)[i] : i \in 1..Len(getAllApiKeys(TRUE))}

\* getAllApiKeys holds the tokens of the environment and of the file, each
\* once.
KeySetIsUnion ==
    /\ ValidKeys = EnvTokens \cup FileTokens
    /\ Len(getAllApiKeys(TRUE)) = Cardinality(EnvTokens \cup FileTokens)

\* This step is a request that requireApiKey decided.
KeyDecided == last'.kind = "rest" /\ last'.gate \in {"ok", "missing", "invalid"}

\* requireApiKey lets the request pass exactly when its header is a string of
\* the set.
AcceptedIffInSet ==
    KeyDecided =>
        (last'.gate = "ok" <=>
            /\ apiKeyHeader'.t = "string"
            /\ apiKeyHeader'.s \in EnvTokens \cup FileTokens)

\* C32: getAllApiKeys returns the trimmed, non-empty tokens of the
\* environment together with the key fields of the file's records, no token
\* twice, and requireApiKey accepts a token exactly when it is in that set.
C32_KeySetIsUnion == [](KeySetIsUnion) /\ [][AcceptedIffInSet]_vars

\* C32 witness: a key of the environment is in the file as well, in two
\* records, and the environment's padded token is accepted.
C32_Witness ==
    /\ Cardinality({i \in 1..Len(apiKeysFile.keys) : apiKeysFile.keys[i].key = S_envKey}) = 2
    /\ last.kind = "rest" /\ last.gate = "ok"
    /\ apiKeyHeader = Str(S_devkey)
    /\ Len(getAllApiKeys(TRUE)) = 2

\* The file after the step is the file before it and one more record, which
\* has an id that no record before it had.
AppendedOne ==
    /\ apiKeysFile'.parsable
    /\ Len(apiKeysFile'.keys) = Len(apiKeysFile.keys) + 1
    /\ \A i \in 1..Len(apiKeysFile.keys) : apiKeysFile'.keys[i] = apiKeysFile.keys[i]
    /\ PlacesOf(NewRecord.id) = {}

\* C33: concurrent create, delete and rename requests leave what applying
\* them one after another leaves: every step of a run is one request applied
\* to the file as the requests before it left it.  A create adds its record
\* and keeps every record there is (two creates are both in the file), a
\* delete removes its record and no other (a record created meanwhile
\* stays), a rename changes one name, and no other step writes the file.
C33_MutationsSerial ==
    [][/\ Created => AppendedOne
       /\ Deleted => \E k \in PlacesOf(last'.arg.id) : RemovedAt(k)
       /\ (IsRename /\ resp'.status = 200) =>
             \E k \in PlacesOf(last'.arg.id) : RenamedAt(k, last'.arg.name)
       /\ ~(IsStoreRequest /\ resp'.status = 200) => apiKeysFile' = apiKeysFile]_vars

\* C33 witness: a create, a delete of its record and a second create: the
\* file holds the second record alone.
C33_Witness ==
    /\ nextKey = 3
    /\ Len(apiKeysFile.keys) = 1
    /\ apiKeysFile.keys[1].id = RandomId(2)
    /\ last.kind = "rest" /\ last.cmd \in {"admin-create", "setup"}
    /\ resp.status = 200

\* ------------------------------------------- claims on the activity flag

\* While the flag is true the last activity is at most the timeout and one
\* sweep interval ago.
ClearedInTime == apiClientActive => now - lastApiActivity <= API_TIMEOUT + SweepInterval

\* The flag goes from true to false only in a sweep, made more than the
\* timeout after the last activity.
ClearedBySweepOnly ==
    (apiClientActive /\ ~apiClientActive') =>
        /\ last'.kind = "sweep"
        /\ now' - lastApiActivity' > API_TIMEOUT

\* C34: the flag is cleared only by a sweep that finds the last activity
\* more than 60 s old, never while it is at most 60 s old; and with the
\* sweep running every 10 s the flag is false at the latest 70 s after the
\* last activity.
C34_ClearedOnSchedule == [](ClearedInTime) /\ [][ClearedBySweepOnly]_vars

\* C34 witness: the last activity was at an instant of the sweep; the sweep
\* 60 s later left the flag, the sweep 70 s later clears it.
C34_Witness ==
    /\ last.kind = "sweep"
    /\ ~apiClientActive
    /\ now - lastApiActivity = API_TIMEOUT + SweepInterval
    /\ StatusEvents(emitted, FALSE) # {}

\* ---------------------------------------- claims on the two surfaces

\* The commands both surfaces offer, by their WebSocket names.
SharedCommands == {"play", "play-now", "stop", "fullscreen", "volume", "next",
                   "previous", "mute", "theater", "seek-back", "seek-forward"}

\* What the REST handler of the command does in this state with this
\* payload.
RestOutcomeOf(command, value) ==
    CASE command = "play" -> PlayHandler("play-video", value)
      [] command = "play-now" -> PlayHandler("play-video-now", value)
      [] command = "volume" -> VolumeHandler(value)
      [] command = "seek-back" -> SeekHandler("seek-backward", Undefined)
      [] command = "seek-forward" -> SeekHandler("seek-forward", Undefined)
      [] OTHER -> ToggleHandler(command)

\* The payload is one the command accepts.
ValidPayload(command, value) ==
    CASE command \in {"play", "play-now"} -> value = Str(S_bareId)
      [] command = "volume" -> InRange(value)
      [] OTHER -> value = Undefined

\* C35: a command of both surfaces sent as a WebSocket message with a valid
\* payload emits the event, with the payload and to the sessions, that the
\* REST endpoint of the command emits from the same state, and leaves the
\* dashboardState the endpoint leaves.
C35_SurfacesAgree ==
    [][(/\ last'.kind = "command"
        /\ last'.cmd \in SharedCommands
        /\ ValidPayload(last'.cmd, last'.arg)) =>
            /\ CommandEventsOf(emitted') = RestOutcomeOf(last'.cmd, last'.arg).events
            /\ dashboardState' = RestOutcomeOf(last'.cmd, last'.arg).state]_vars

\* ------------------------------------- claims on what the sessions know

\* The 'connected-clients' events among the events.
ListEvents(events) == {i \in 1..Len(events) : events[i].ev = "connected-clients"}

\* C36: a handler that changes the registry broadcasts 'connected-clients'
\* with the external list it leaves, to every session there is then; and no
\* handler broadcasts another list.  So between handlers the list broadcast
\* last is the external list, with its sessions and their names.
C36_ListBroadcastOnChange ==
    [][/\ connectedClients' # connectedClients => ListEvents(emitted') # {}
       /\ \A i \in ListEvents(emitted') :
             /\ emitted'[i].list = ExternalOf(connectedClients')
             /\ emitted'[i].to = sockets']_vars

\* Every record's role is the one its name gives.
RoleAgreesWithName ==
    \A i \in 1..Len(connectedClients) :
        connectedClients[i].type = "dashboard"
            <=> HasDashboardPrefix(connectedClients[i].name)

\* The identify of this step applied completely: the record of its sender has
\* the role of its name, and the list was broadcast.
IdentifyApplied ==
    /\ RecordsIn(connectedClients', last'.id) # {}
    /\ RecordIn(connectedClients', last'.id).type = "dashboard"
          <=> HasDashboardPrefix(RecordIn(connectedClients', last'.id).name)
    /\ ListEvents(emitted') # {}

\* C37: every registered session's type is 'dashboard' exactly if its name
\* is a string that starts with 'Dashboard'; an identify, whatever its name
\* field, applies completely (name, role, broadcast) or changes nothing.
C37_RoleFollowsName ==
    /\ [](RoleAgreesWithName)
    /\ [][last'.kind = "identify" =>
             \/ IdentifyApplied
             \/ connectedClients' = connectedClients /\ emitted' = <<>>]_vars

\* This step handled a message that is not JSON, or is the JSON of null or of
\* a value or object without a type the handler knows.
Unhandled ==
    /\ last'.kind = "message"
    /\ \/ last'.arg.t \in {"text", "null", "number"}
       \/ last'.arg.t = "object" /\ last'.arg.type \notin MessageTypes

\* C38: a message that is not JSON, that parses to null or to another value
\* that is no object, or that has no known type leaves the registry,
\* dashboardState and the activity flag as they are and broadcasts nothing;
\* its sender stays registered, and its next message is handled.
C38_UnhandledMessageIgnored ==
    [][Unhandled =>
          /\ UNCHANGED registryVars
          /\ dashboardState' = dashboardState
          /\ UNCHANGED activityVars
          /\ emitted' = <<>>
          /\ last'.id \in sockets'
          /\ RecordsIn(connectedClients', last'.id) # {}
          /\ \A id \in Ids : id = last'.id => (ENABLED WsGetControls(id))']_vars

\* C38 witness: the JSON of null from the second of two sessions, while the
\* flag is true and the volume is 40.
C38_Witness ==
    /\ last.kind = "message" /\ last.arg.t = "null" /\ last.id = 2
    /\ last.gate = "caught"
    /\ apiClientActive
    /\ dashboardState.volume = Num(40)
    /\ Len(connectedClients) = 2
    /\ emitted = <<>>

\* The 'api-client-status' events among the events that go to this session.
StatusTo(id, events) ==
    {i \in 1..Len(events) : events[i].ev = "api-client-status" /\ id \in events[i].to}

\* The last of them.
LastStatusTo(id, events) ==
    events[CHOOSE i \in StatusTo(id, events) : \A j \in StatusTo(id, events) : j <= i]

\* C39: a session is sent the activity flag when it connects, every change
\* of the flag is sent to every session there is, and the last value a
\* handler sends a session is the flag the handler leaves.  So between
\* handlers the last 'api-client-status' each registered session received is
\* apiClientActive.
C39_SessionsKnowTheFlag ==
    [][\A id \in Ids : id \in sockets' =>
          /\ (id \notin sockets \/ apiClientActive' # apiClientActive) =>
                StatusTo(id, emitted') # {}
          /\ StatusTo(id, emitted') # {} =>
                LastStatusTo(id, emitted').val = Bool(apiClientActive')]_vars

\* C39 witness: the second session connects while the flag is true and is
\* sent {active: true}; the first is sent nothing about the flag.
C39_Witness ==
    /\ last.kind = "connect" /\ last.id = 2
    /\ apiClientActive
    /\ 1 \in sockets
    /\ StatusTo(1, emitted) = {}
    /\ StatusTo(2, emitted) # {}
    /\ LastStatusTo(2, emitted).val = Bool(TRUE)

====
